---- MODULE Spec2Model ----
(***************************************************************************)
(* Model of the relayer's channel open handshake driver                     *)
(* (relayer/src/channel.rs) and of the supervisor's dispatcher              *)
(* (relayer/src/supervisor.rs).                                             *)
(*                                                                          *)
(* Two chains, A and B, hold channel ends.  Relayers run                    *)
(* Channel::new -> handshake(): Init, Try and finalize, each under the      *)
(* Fibonacci retry.  Competing actors submit handshake and close messages   *)
(* of their own.  Every RPC that decides the control flow is one step.      *)
(***************************************************************************)
EXTENDS Integers, Sequences, FiniteSets, TLC

\* ------------------------------------------------------------------ bounds
MaxFail == 1      \* transient RPC failures injected in one behaviour
MaxEnv == 2       \* messages submitted by competing actors in one behaviour
FibLen == 24      \* length of the prefix taken of the infinite Fibonacci iterator
MaxSupFail == 1   \* supervisor steps in which a spawn, subscribe or send fails
MaxCollectSteps == 1  \* batches classified in one behaviour of CollectSpec
MaxSupSteps == 2  \* batches and commands the supervisor loop takes in one behaviour
HeightBits == 6   \* width the u64 of Height::revision_height is scaled to

\* ------------------------------------------------------- program constants
MAX_DELAY == 60
MAX_TOTAL_DELAY == 600
INITIAL_DELAY == 1

Relayers == {"r1", "r2"}
Chains == {"A", "B"}
MaxChan == 1 + Cardinality(Relayers) + MaxEnv
ChanIds == 1..MaxChan
NoChan == 0

Other(c) == IF c = "A" THEN "B" ELSE "A"
PortOf(c) == IF c = "A" THEN "portA" ELSE "portB"
ConnOf(c) == IF c = "A" THEN "connA" ELSE "connB"

States == {"Uninitialized", "Init", "TryOpen", "Open", "Closed"}

\* `state as u32` of the ICS-04 channel State enum
StateNum(s) ==
  CASE s = "Uninitialized" -> 0
    [] s = "Init" -> 1
    [] s = "TryOpen" -> 2
    [] s = "Open" -> 3
    [] s = "Closed" -> 4

ChannelEnd(state, cpPort, cpChan, hop) ==
  [state |-> state, cpPort |-> cpPort, cpChan |-> cpChan, hop |-> hop]

NoEnd == ChannelEnd("Uninitialized", "none", NoChan, "none")

Min(a, b) == IF a < b THEN a ELSE b

\* ------------------------------------------------------------ retry delays
\* retry::delay::Fibonacci::from(d): curr = next = d; yields curr, then
\* (curr, next) := (next, curr + next)
RECURSIVE Fibonacci(_, _, _)
Fibonacci(curr, next, n) ==
  IF n = 0 THEN << >> ELSE <<curr>> \o Fibonacci(next, curr + next, n - 1)

RECURSIVE clamp_scan(_, _, _)
clamp_scan(s, elapsed, max_total_delay) ==
  IF s = << >> \/ elapsed >= max_total_delay THEN << >>
  ELSE LET delay == Head(s)
           out == IF elapsed + delay > max_total_delay
                  THEN max_total_delay - elapsed ELSE delay
       IN <<out>> \o clamp_scan(Tail(s), elapsed + delay, max_total_delay)

\* util::retry::clamp_total: every delay capped by max_delay, the sequence
\* cut (its last delay shortened) where the running sum reaches max_total_delay
clamp_total(strategy, max_delay, max_total_delay) ==
  clamp_scan([i \in 1..Len(strategy) |-> Min(strategy[i], max_delay)],
             0, max_total_delay)

retry_strategy_unclamped ==
  Fibonacci(INITIAL_DELAY, INITIAL_DELAY, FibLen)

retry_strategy_default ==
  clamp_total(Fibonacci(INITIAL_DELAY, INITIAL_DELAY, FibLen),
              MAX_DELAY, MAX_TOTAL_DELAY)

\* Result<(), ChannelError> -> retry::OperationResult: Ok stays Ok and every
\* Err(e), whatever its kind, becomes Retry(e)
OperationResult_fail_fast(kind) ==
  IF kind = "Ok" THEN "Ok"
  ELSE IF kind \in {"MismatchPort", "ChannelAlreadyExist",
                    "MissingChannelOnDestination"}
       THEN "Err" ELSE "Retry"

\* every Err aborts: no attempt after a failure
OperationResult_no_retry(kind) == IF kind = "Ok" THEN "Ok" ELSE "Err"

OperationResult(kind) == IF kind = "Ok" THEN "Ok" ELSE "Retry"


\* ------------------------------------------------------------------- state
VARIABLES
  chans,      \* chans[c][id]: the channel end stored on chain c under id
  nextId,     \* nextId[c]: the next channel identifier chain c hands out
  evlog,      \* evlog[r]: handshake events send_msgs returned to r, in order
  pc,         \* pc[r]: position of relayer r inside handshake()
  drv,        \* drv[r][c]: a_side / b_side channel_id of r's Channel (0 = None)
  retry,      \* retry[r]: retry_with_index's current_try, total_delay, iterator,
              \*   and the error the attempt before the current one returned
  fin,        \* fin[r]: locals of the current do_chan_open_finalize attempt
  result,     \* result[r]: what handshake() returned
  nsend,      \* nsend[r][m]: send_msgs calls of r per message type
  sentmsg,    \* sentmsg[r]: the message of r's last send_msgs call
  att,        \* att[r][phase]: attempts r made in each phase
  retried,    \* retried[r]: error kinds after which r made another attempt
  failLeft,   \* transient RPC failures still to be injected
  down,       \* the chain whose send_msgs fails on every call, or "none"
  envLeft,    \* messages competing actors may still submit
  pre,        \* what the chains held before any relayer started
  racing,     \* whether a second relayer runs the same handshake
  config,     \* config.chains: the configured chain ids, in order
  mode,       \* config.mode: the enable flags and packets.filter
  registry,   \* the chain ids that have a live handle in the registry
  workers,    \* workers[object]: live workers held under that Object key
  subscriptions, \* the chains of the (chain, subscription) pairs, in order
  supPc,      \* "new", "running", "stopped", "failed"; "tasks", "cmd_ended"
  supFailLeft, \* steps in which a spawn, subscribe or send may still fail
  supStepsLeft, \* batches and commands the loop may still take
  last,       \* what the last supervisor step did to the workers
  query,      \* the HeightQuery of a request that is being marshalled
  wire,       \* what the two conversions of that HeightQuery returned
  filt,       \* a call of relay_on_object: its arguments, what the filters
              \*   would answer, and what it returned and consulted
  locks,      \* the RwLocks of the supervisor: who holds each of them, and
              \*   the lock operations each task still has to do in the
              \*   current run of its closure
  rst,        \* a call of Channel::restore_from_state: what the chains
              \*   answer to its queries, and what it returned
  stp         \* a call of Channel::step_state or step_event: its argument,
              \*   the counterparty state, and what it submitted and returned

chainVars == <<chans, nextId, evlog>>
drvVars == <<pc, drv, retry, fin, result>>
histVars == <<nsend, sentmsg, att, retried>>
scnVars == <<failLeft, down, envLeft, pre, racing>>
callVars == <<rst, stp>>
auxVars == <<filt, locks, callVars>>
reqVars == <<query, wire, auxVars>>
hsVars == <<chainVars, drvVars, histVars, scnVars, reqVars>>
supVars == <<config, mode, registry, workers, subscriptions, supPc,
             supFailLeft, supStepsLeft, last, reqVars>>

Phases == {"init", "try", "finalize"}
MsgTypes == {"OpenInit", "OpenTry", "OpenAck", "OpenConfirm"}

PhaseOf(p) == IF p \in {"init", "try"} THEN p ELSE "finalize"
PhaseStart(ph) == IF ph = "finalize" THEN "fqa" ELSE ph

RetryInit == [tries |-> 1, total_delay |-> 0, idx |-> 0, delay |-> 0,
              err |-> "none"]
NoPlan == [ackTo |-> "none", exp1 |-> <<"Uninitialized", "Uninitialized">>,
           confTo |-> "none"]
FinInit == [qa |-> "Uninitialized", qb |-> "Uninitialized", plan |-> NoPlan,
            sent |-> 0, first |-> <<"Uninitialized", "Uninitialized">>]
NoResult == [kind |-> "none", description |-> "none", tries |-> 0,
             total_delay |-> 0, source |-> "none"]
OkResult == [NoResult EXCEPT !.kind = "Ok"]

\* ------------------------------------------------- the chains (ICS-04 side)
Event(c, kind, id, by) == [chain |-> c, kind |-> kind, chan |-> id, by |-> by]

\* MsgChannelOpenInit on chain c: a fresh identifier, state Init, no
\* counterparty channel id yet
ChainOpenInit(c) ==
  [chans EXCEPT ![c][nextId[c]] =
     ChannelEnd("Init", PortOf(Other(c)), NoChan, ConnOf(c))]

\* MsgChannelOpenTry on chain dst with a proof of the end srcChan on the other
\* chain: that end must be in Init and name dst's port; a previous channel, if
\* named, must be an Init end with the same fields
TryAccepts(dst, prev, srcChan) ==
  LET src == Other(dst)
      srcEnd == chans[src][srcChan]
  IN /\ srcEnd.state = "Init"
     /\ srcEnd.cpPort = PortOf(dst)
     /\ srcEnd.cpChan = NoChan
     /\ prev # NoChan =>
          /\ chans[dst][prev].state = "Init"
          /\ chans[dst][prev].cpPort = PortOf(src)
          /\ chans[dst][prev].cpChan = NoChan
          /\ chans[dst][prev].hop = ConnOf(dst)

TryId(dst, prev) == IF prev # NoChan THEN prev ELSE nextId[dst]

ChainOpenTry(dst, prev, srcChan) ==
  [chans EXCEPT ![dst][TryId(dst, prev)] =
     ChannelEnd("TryOpen", PortOf(Other(dst)), srcChan, ConnOf(dst))]

\* MsgChannelOpenAck on chain dst for its end dstChan, with a proof of the end
\* srcChan on the other chain being in TryOpen and pointing back at dstChan
AckAccepts(dst, dstChan, srcChan) ==
  LET srcEnd == chans[Other(dst)][srcChan]
  IN /\ chans[dst][dstChan].state \in {"Init", "TryOpen"}
     /\ srcEnd.state = "TryOpen"
     /\ srcEnd.cpPort = PortOf(dst)
     /\ srcEnd.cpChan = dstChan

ChainOpenAck(dst, dstChan, srcChan) ==
  [chans EXCEPT ![dst][dstChan].state = "Open", ![dst][dstChan].cpChan = srcChan]

\* MsgChannelOpenConfirm on chain dst for its end dstChan, with a proof of the
\* counterparty end being Open and pointing back at dstChan
ConfirmAccepts(dst, dstChan, srcChan) ==
  LET srcEnd == chans[Other(dst)][srcChan]
  IN /\ chans[dst][dstChan].state = "TryOpen"
     /\ chans[dst][dstChan].cpChan = srcChan
     /\ srcEnd.state = "Open"
     /\ srcEnd.cpPort = PortOf(dst)
     /\ srcEnd.cpChan = dstChan

ChainOpenConfirm(dst, dstChan) ==
  [chans EXCEPT ![dst][dstChan].state = "Open"]

\* MsgChannelCloseInit on chain c for its end id
ChainCloseInit(c, id) == [chans EXCEPT ![c][id].state = "Closed"]

\* ------------------------------------------------------------ RPC failures
\* send_msgs / a query on chain c returns an error: always on the chain that
\* is down, and up to MaxFail times elsewhere (in the runs of a single relayer)
RpcFails(c) == down = c \/ (failLeft > 0 /\ ~racing)
RpcFailed(c) == failLeft' = IF down = c THEN failLeft ELSE failLeft - 1
RpcWorks(c) == down # c


\* -------------------------------------------------------- the retry wrapper
\* from_retry_error: retry::Error::Operation {error, total_delay, tries}
\* becomes MaxRetry {description, tries, total_delay, source}
from_retry_error(rt, kind, description) ==
  [kind |-> "MaxRetry", description |-> description, tries |-> rt.tries,
   total_delay |-> rt.total_delay, source |-> kind]

\* as retry_with_index, but handshake() drops the MaxRetry error of a phase and
\* goes on to the next phase
retry_with_index_continue(r, kind) ==
  LET ph == PhaseOf(pc[r])
      rt == retry[r]
      delays == retry_strategy_default
      nxt == IF ph = "init" THEN "try" ELSE "finalize"
  IN IF OperationResult(kind) = "Retry" /\ rt.idx < Len(delays)
     THEN /\ retry' = [retry EXCEPT ![r] =
                 [tries |-> rt.tries + 1,
                  total_delay |-> rt.total_delay + delays[rt.idx + 1],
                  idx |-> rt.idx + 1,
                  delay |-> delays[rt.idx + 1],
                  err |-> kind]]
          /\ pc' = [pc EXCEPT ![r] = PhaseStart(ph)]
          /\ att' = [att EXCEPT ![r][ph] = @ + 1]
          /\ retried' = [retried EXCEPT ![r] = @ \cup {kind}]
          /\ fin' = [fin EXCEPT ![r] = FinInit]
          /\ result' = result
     ELSE IF ph = "finalize"
     THEN /\ result' = [result EXCEPT ![r] = from_retry_error(rt, kind, ph)]
          /\ pc' = [pc EXCEPT ![r] = "done"]
          /\ UNCHANGED <<retry, att, retried, fin>>
     ELSE /\ pc' = [pc EXCEPT ![r] = PhaseStart(nxt)]
          /\ retry' = [retry EXCEPT ![r] = RetryInit]
          /\ att' = [att EXCEPT ![r][nxt] = 1]
          /\ UNCHANGED <<fin, result, retried>>

\* retry_with_index, the attempt of r's current phase having returned
\* Err(kind): sleep the iterator's next delay and run the phase again, or give
\* up when the iterator is exhausted
retry_with_index(r, kind) ==
  LET ph == PhaseOf(pc[r])
      rt == retry[r]
      delays == retry_strategy_default
  IN IF OperationResult(kind) = "Retry" /\ rt.idx < Len(delays)
     THEN /\ retry' = [retry EXCEPT ![r] =
                 [tries |-> rt.tries + 1,
                  total_delay |-> rt.total_delay + delays[rt.idx + 1],
                  idx |-> rt.idx + 1,
                  delay |-> delays[rt.idx + 1],
                  err |-> kind]]
          /\ pc' = [pc EXCEPT ![r] = PhaseStart(ph)]
          /\ att' = [att EXCEPT ![r][ph] = @ + 1]
          /\ retried' = [retried EXCEPT ![r] = @ \cup {kind}]
          /\ fin' = [fin EXCEPT ![r] = FinInit]
          /\ result' = result
     ELSE /\ result' = [result EXCEPT ![r] = from_retry_error(rt, kind, ph)]
          /\ pc' = [pc EXCEPT ![r] = "done"]
          /\ UNCHANGED <<retry, att, retried, fin>>

\* handshake(): `?` after a phase that returned Ok; the next phase starts with
\* a fresh retry iterator
NextPhase(r, ph) ==
  /\ pc' = [pc EXCEPT ![r] = PhaseStart(ph)]
  /\ retry' = [retry EXCEPT ![r] = RetryInit]
  /\ att' = [att EXCEPT ![r][ph] = 1]
  /\ UNCHANGED <<fin, result, retried>>

\* the handshake message handed to send_msgs (after the UpdateClient
\* messages): its type, the chain it goes to, and the channel ids it carries
Msg(type, dst, channel_id, counterparty_channel_id, previous_channel_id) ==
  [type |-> type, dst |-> dst, channel_id |-> channel_id,
   counterparty_channel_id |-> counterparty_channel_id,
   previous_channel_id |-> previous_channel_id]
NoMsg == Msg("none", "none", NoChan, NoChan, NoChan)

Sent(r, msg) ==
  /\ nsend' = [nsend EXCEPT ![r][msg.type] = @ + 1]
  /\ sentmsg' = [sentmsg EXCEPT ![r] = msg]

\* ------------------------------------------------- Channel::new, handshake()
\* Channel::new: both channel ids None, then handshake()
ChannelNew(r) ==
  /\ pc[r] = "idle"
  /\ r = "r2" => racing
  /\ pc' = [pc EXCEPT ![r] = "init"]
  /\ att' = [att EXCEPT ![r]["init"] = 1]
  /\ UNCHANGED <<chainVars, drv, retry, fin, result, nsend, sentmsg, retried, scnVars, supVars>>

\* as do_chan_open_init_and_send, but an Init end that A already holds for the
\* driver's ports is adopted instead of a MsgChannelOpenInit being sent
do_chan_open_init_and_send_adopt(r) ==
  /\ pc[r] = "init"
  /\ IF \E id \in ChanIds : chans["A"][id].state = "Init"
     THEN /\ drv' = [drv EXCEPT ![r]["A"] =
                 CHOOSE id \in ChanIds : chans["A"][id].state = "Init"]
          /\ NextPhase(r, "try")
          /\ UNCHANGED <<chainVars, nsend, sentmsg, scnVars, supVars>>
     ELSE /\ Sent(r, Msg("OpenInit", "A", NoChan, NoChan, NoChan))
          /\ RpcWorks("A")
          /\ nextId["A"] \in ChanIds
          /\ chans' = ChainOpenInit("A")
          /\ nextId' = [nextId EXCEPT !["A"] = @ + 1]
          /\ evlog' = [evlog EXCEPT ![r] = Append(@, Event("A", "OpenInit", nextId["A"], r))]
          /\ drv' = [drv EXCEPT ![r]["A"] = nextId["A"]]
          /\ NextPhase(r, "try")
          /\ UNCHANGED <<scnVars, supVars>>

\* do_chan_open_init_and_send: MsgChannelOpenInit to chain A (the dst of
\* self.flipped()), a_side.channel_id taken from the OpenInitChannel event
do_chan_open_init_and_send(r) ==
  /\ pc[r] = "init"
  /\ Sent(r, Msg("OpenInit", "A", NoChan, NoChan, NoChan))
  /\ \/ /\ RpcFails("A")
        /\ RpcFailed("A")
        /\ retry_with_index(r, "Submit")
        /\ UNCHANGED <<chainVars, drv, down, envLeft, pre, racing, supVars>>
     \/ /\ RpcWorks("A")
        /\ nextId["A"] \in ChanIds
        /\ chans' = ChainOpenInit("A")
        /\ nextId' = [nextId EXCEPT !["A"] = @ + 1]
        /\ evlog' = [evlog EXCEPT ![r] = Append(@, Event("A", "OpenInit", nextId["A"], r))]
        /\ drv' = [drv EXCEPT ![r]["A"] = nextId["A"]]
        /\ NextPhase(r, "try")
        /\ UNCHANGED <<scnVars, supVars>>

\* build_chan_open_try up to the message: the error it returns, or "Ok"
build_chan_open_try(r) ==
  IF drv[r]["A"] = NoChan THEN "MissingLocalChannelId"
  ELSE IF chans["A"][drv[r]["A"]].cpPort # PortOf("B") THEN "MismatchPort"
  ELSE "Ok"

\* as previous_channel_id, but the driver's own B channel id comes first
previous_channel_id_own_first(r) ==
  IF drv[r]["B"] # NoChan
  THEN drv[r]["B"] ELSE chans["A"][drv[r]["A"]].cpChan

\* previous_channel_id of MsgChannelOpenTry
previous_channel_id(r) ==
  IF chans["A"][drv[r]["A"]].cpChan = NoChan
  THEN drv[r]["B"] ELSE chans["A"][drv[r]["A"]].cpChan

\* do_chan_open_try_and_send: MsgChannelOpenTry to chain B with the proof of
\* A's end, b_side.channel_id taken from the OpenTryChannel event
do_chan_open_try_and_send(r) ==
  /\ pc[r] = "try"
  /\ IF build_chan_open_try(r) # "Ok"
     THEN /\ retry_with_index(r, build_chan_open_try(r))
          /\ UNCHANGED <<chainVars, drv, nsend, sentmsg, scnVars, supVars>>
     ELSE /\ Sent(r, Msg("OpenTry", "B", NoChan, drv[r]["A"],
                          previous_channel_id(r)))
          /\ \/ /\ RpcFails("B")
                /\ RpcFailed("B")
                /\ retry_with_index(r, "Submit")
                /\ UNCHANGED <<chainVars, drv, down, envLeft, pre, racing, supVars>>
             \/ /\ RpcWorks("B")
                /\ ~TryAccepts("B", previous_channel_id(r), drv[r]["A"])
                /\ retry_with_index(r, "TxResponse")
                /\ UNCHANGED <<chainVars, drv, scnVars, supVars>>
             \/ /\ RpcWorks("B")
                /\ TryAccepts("B", previous_channel_id(r), drv[r]["A"])
                /\ TryId("B", previous_channel_id(r)) \in ChanIds
                /\ chans' = ChainOpenTry("B", previous_channel_id(r), drv[r]["A"])
                /\ nextId' = IF previous_channel_id(r) = NoChan
                             THEN [nextId EXCEPT !["B"] = @ + 1] ELSE nextId
                /\ evlog' = [evlog EXCEPT ![r] = Append(@,
                             Event("B", "OpenTry", TryId("B", previous_channel_id(r)), r))]
                /\ drv' = [drv EXCEPT ![r]["B"] = TryId("B", previous_channel_id(r))]
                /\ NextPhase(r, "finalize")
                /\ UNCHANGED <<scnVars, supVars>>

\* ---------------------------------------------------- do_chan_open_finalize
\* query_channel_states, first half: the ids, then query_channel on chain A
query_channel_states_a(r) ==
  /\ pc[r] \in {"fqa", "x1a", "x2a"}
  /\ UNCHANGED <<chainVars, drv, nsend, sentmsg, down, envLeft, pre, racing, supVars>>
  /\ IF drv[r]["A"] = NoChan
     THEN retry_with_index(r, "MissingLocalChannelId") /\ UNCHANGED failLeft
     ELSE IF drv[r]["B"] = NoChan
     THEN retry_with_index(r, "MissingCounterpartyConnection") /\ UNCHANGED failLeft
     ELSE \/ /\ failLeft > 0 /\ ~racing
             /\ failLeft' = failLeft - 1
             /\ retry_with_index(r, "HandshakeFinalize")
          \/ /\ fin' = [fin EXCEPT ![r].qa = chans["A"][drv[r]["A"]].state]
             /\ pc' = [pc EXCEPT ![r] =
                         CASE pc[r] = "fqa" -> "fqb"
                           [] pc[r] = "x1a" -> "x1b"
                           [] pc[r] = "x2a" -> "x2b"]
             /\ UNCHANGED <<retry, result, att, retried, failLeft>>

\* the match of do_chan_open_finalize on (a_state, b_state): where the Ack
\* goes, the pair expected after it, where the Confirm goes
Plan(ackTo, exp1, confTo) == [ackTo |-> ackTo, exp1 |-> exp1, confTo |-> confTo]

\* as finalize_match, but a Confirm is sent to B although both ends are Open
finalize_match_confirm_on_open(a, b) ==
  CASE <<a, b>> \in {<<"Init", "TryOpen">>, <<"TryOpen", "TryOpen">>} ->
         Plan("A", <<"Open", "TryOpen">>, "B")
    [] <<a, b>> = <<"TryOpen", "Init">> ->
         Plan("A", <<"TryOpen", "Open">>, "A")
    [] <<a, b>> \in {<<"Open", "TryOpen">>, <<"Open", "Open">>} ->
         Plan("none", <<a, b>>, "B")
    [] <<a, b>> = <<"TryOpen", "Open">> -> Plan("none", <<a, b>>, "A")
    [] OTHER -> Plan("none", <<a, b>>, "none")

\* as finalize_match, but the Confirm goes out before the Ack on (Init, TryOpen)
finalize_match_no_ack(a, b) ==
  CASE <<a, b>> \in {<<"Init", "TryOpen">>, <<"TryOpen", "TryOpen">>,
                     <<"Open", "TryOpen">>} ->
         Plan("none", <<a, b>>, "B")
    [] <<a, b>> = <<"TryOpen", "Init">> ->
         Plan("A", <<"TryOpen", "Open">>, "A")
    [] <<a, b>> = <<"TryOpen", "Open">> -> Plan("none", <<a, b>>, "A")
    [] OTHER -> Plan("none", <<a, b>>, "none")

finalize_match(a, b) ==
  CASE <<a, b>> \in {<<"Init", "TryOpen">>, <<"TryOpen", "TryOpen">>} ->
         Plan("A", <<"Open", "TryOpen">>, "B")
    [] <<a, b>> = <<"TryOpen", "Init">> ->
         Plan("A", <<"TryOpen", "Open">>, "A")
    [] <<a, b>> = <<"Open", "TryOpen">> -> Plan("none", <<a, b>>, "B")
    [] <<a, b>> = <<"TryOpen", "Open">> -> Plan("none", <<a, b>>, "A")
    [] OTHER -> Plan("none", <<a, b>>, "none")

\* query_channel_states, second half (query_channel on chain B), and the match
do_chan_open_finalize(r) ==
  /\ pc[r] = "fqb"
  /\ LET b == chans["B"][drv[r]["B"]].state
         plan == finalize_match(fin[r].qa, b)
     IN /\ fin' = [fin EXCEPT ![r].qb = b, ![r].plan = plan,
                              ![r].first = <<fin[r].qa, b>>]
        /\ pc' = [pc EXCEPT ![r] =
                    IF plan.ackTo # "none" THEN "ack"
                    ELSE IF plan.confTo # "none" THEN "confirm" ELSE "done"]
        /\ result' = [result EXCEPT ![r] =
                    IF plan.ackTo = "none" /\ plan.confTo = "none"
                    THEN OkResult ELSE @]
  /\ UNCHANGED <<chainVars, drv, retry, histVars, scnVars, supVars>>

\* ChannelError::partial_open_handshake(a1, b1): the error names the pair
\* that was expected
partial_open_handshake(a1, b1) ==
  CASE <<a1, b1>> = <<"Open", "TryOpen">> -> "PartialOpenHandshake(Open, TryOpen)"
    [] <<a1, b1>> = <<"TryOpen", "Open">> -> "PartialOpenHandshake(TryOpen, Open)"
    [] <<a1, b1>> = <<"Open", "Open">> -> "PartialOpenHandshake(Open, Open)"

\* as expect_channel_states, but the attempt goes on whatever the re-queried
\* pair is
expect_channel_states_unchecked(r) ==
  /\ pc[r] \in {"x1b", "x2b"}
  /\ fin' = [fin EXCEPT ![r].qb = chans["B"][drv[r]["B"]].state]
  /\ pc' = [pc EXCEPT ![r] = IF pc[r] = "x1b" THEN "confirm" ELSE "done"]
  /\ result' = [result EXCEPT ![r] = IF pc[r] = "x2b" THEN OkResult ELSE @]
  /\ UNCHANGED <<retry, att, retried>>
  /\ UNCHANGED <<chainVars, drv, nsend, sentmsg, scnVars, supVars>>

\* expect_channel_states: the re-queried pair against the expected one
expect_channel_states(r) ==
  /\ pc[r] \in {"x1b", "x2b"}
  /\ LET b == chans["B"][drv[r]["B"]].state
         expected == IF pc[r] = "x1b" THEN fin[r].plan.exp1 ELSE <<"Open", "Open">>
     IN IF <<fin[r].qa, b>> = expected
        THEN /\ fin' = [fin EXCEPT ![r].qb = b]
             /\ pc' = [pc EXCEPT ![r] = IF pc[r] = "x1b" THEN "confirm" ELSE "done"]
             /\ result' = [result EXCEPT ![r] = IF pc[r] = "x2b" THEN OkResult ELSE @]
             /\ UNCHANGED <<retry, att, retried>>
        ELSE retry_with_index(r, partial_open_handshake(expected[1],
                                                        expected[2]))
  /\ UNCHANGED <<chainVars, drv, nsend, sentmsg, scnVars, supVars>>

\* as check_destination_channel_state, but the counterparty port is not
\* compared
check_destination_channel_state_any_port(existing, expected) ==
  LET good_connection_hops == existing.hop = expected.hop
      good_state == StateNum(existing.state) <= StateNum(expected.state)
      good_channel_port_ids ==
        \/ existing.cpChan = NoChan
        \/ existing.cpChan = expected.cpChan
  IN IF good_state /\ good_connection_hops /\ good_channel_port_ids
     THEN "Ok" ELSE "ChannelAlreadyExist"

\* check_destination_channel_state
check_destination_channel_state(existing, expected) ==
  LET good_connection_hops == existing.hop = expected.hop
      good_state == StateNum(existing.state) <= StateNum(expected.state)
      good_channel_port_ids ==
        \/ existing.cpChan = NoChan
        \/ /\ existing.cpChan = expected.cpChan
           /\ existing.cpPort = expected.cpPort
  IN IF good_state /\ good_connection_hops /\ good_channel_port_ids
     THEN "Ok" ELSE "ChannelAlreadyExist"

highest_state(msg_type) ==
  CASE msg_type \in {"OpenAck", "OpenConfirm"} -> "TryOpen"
    [] msg_type = "CloseConfirm" -> "Open"
    [] OTHER -> "Uninitialized"

\* validated_expected_channel of the Channel whose dst chain is dst
validated_expected_channel(r, dst, msg_type) ==
  LET src == Other(dst)
      dst_expected_channel ==
        ChannelEnd(highest_state(msg_type), PortOf(src), drv[r][src], ConnOf(dst))
  IN IF drv[r][dst] = NoChan THEN "MissingCounterpartyChannelId"
     ELSE IF chans[dst][drv[r][dst]].state = "Uninitialized"
     THEN "MissingChannelOnDestination"
     ELSE check_destination_channel_state(chans[dst][drv[r][dst]],
                                          dst_expected_channel)

\* build_chan_open_ack / build_chan_open_confirm up to the message: the error
\* returned, or "Ok"
build_chan_open_msg(r, dst, msg_type) ==
  IF drv[r][Other(dst)] = NoChan THEN "MissingLocalChannelId"
  ELSE IF drv[r][dst] = NoChan THEN "MissingCounterpartyChannelId"
  ELSE validated_expected_channel(r, dst, msg_type)

\* build_chan_open_ack_and_send on the Channel whose dst chain is the match's
\* Ack target
build_chan_open_ack_and_send(r) ==
  /\ pc[r] = "ack"
  /\ LET dst == fin[r].plan.ackTo
         src == Other(dst)
         pre_err == build_chan_open_msg(r, dst, "OpenAck")
     IN IF pre_err # "Ok"
        THEN /\ retry_with_index(r, pre_err)
             /\ UNCHANGED <<chainVars, drv, nsend, sentmsg, scnVars, supVars>>
        ELSE /\ Sent(r, Msg("OpenAck", dst, drv[r][dst], drv[r][src], NoChan))
             /\ UNCHANGED <<nextId, drv, down, envLeft, pre, racing, supVars>>
             /\ \/ /\ RpcFails(dst)
                   /\ RpcFailed(dst)
                   /\ retry_with_index(r, "Submit")
                   /\ UNCHANGED <<chans, evlog>>
                \/ /\ RpcWorks(dst)
                   /\ ~AckAccepts(dst, drv[r][dst], drv[r][src])
                   /\ retry_with_index(r, "TxResponse")
                   /\ UNCHANGED <<chans, evlog, failLeft>>
                \/ /\ RpcWorks(dst)
                   /\ AckAccepts(dst, drv[r][dst], drv[r][src])
                   /\ chans' = ChainOpenAck(dst, drv[r][dst], drv[r][src])
                   /\ evlog' = [evlog EXCEPT ![r] = Append(@, Event(dst, "OpenAck", drv[r][dst], r))]
                   /\ fin' = [fin EXCEPT ![r].sent = @ + 1]
                   /\ pc' = [pc EXCEPT ![r] = "x1a"]
                   /\ UNCHANGED <<retry, result, att, retried, failLeft>>

\* build_chan_open_confirm_and_send on the Channel whose dst chain is the
\* match's Confirm target; a ChainError in the response is InvalidEvent
build_chan_open_confirm_and_send(r) ==
  /\ pc[r] = "confirm"
  /\ LET dst == fin[r].plan.confTo
         src == Other(dst)
         pre_err == build_chan_open_msg(r, dst, "OpenConfirm")
     IN IF pre_err # "Ok"
        THEN /\ retry_with_index(r, pre_err)
             /\ UNCHANGED <<chainVars, drv, nsend, sentmsg, scnVars, supVars>>
        ELSE /\ Sent(r, Msg("OpenConfirm", dst, drv[r][dst], NoChan, NoChan))
             /\ UNCHANGED <<nextId, drv, down, envLeft, pre, racing, supVars>>
             /\ \/ /\ RpcFails(dst)
                   /\ RpcFailed(dst)
                   /\ retry_with_index(r, "Submit")
                   /\ UNCHANGED <<chans, evlog>>
                \/ /\ RpcWorks(dst)
                   /\ ~ConfirmAccepts(dst, drv[r][dst], drv[r][src])
                   /\ retry_with_index(r, "InvalidEvent")
                   /\ UNCHANGED <<chans, evlog, failLeft>>
                \/ /\ RpcWorks(dst)
                   /\ ConfirmAccepts(dst, drv[r][dst], drv[r][src])
                   /\ chans' = ChainOpenConfirm(dst, drv[r][dst])
                   /\ evlog' = [evlog EXCEPT ![r] = Append(@, Event(dst, "OpenConfirm", drv[r][dst], r))]
                   /\ fin' = [fin EXCEPT ![r].sent = @ + 1]
                   /\ pc' = [pc EXCEPT ![r] = "x2a"]
                   /\ UNCHANGED <<retry, result, att, retried, failLeft>>


\* --------------------------------------------------------- competing actors
\* A competing relayer's handshake_step: OpenTry for an Init end it observed
EnvTry ==
  /\ envLeft > 0
  /\ \E srcChan \in ChanIds :
       /\ TryAccepts("B", NoChan, srcChan)
       /\ nextId["B"] \in ChanIds
       /\ chans' = ChainOpenTry("B", NoChan, srcChan)
       /\ nextId' = [nextId EXCEPT !["B"] = @ + 1]
  /\ envLeft' = envLeft - 1
  /\ UNCHANGED <<evlog, drvVars, histVars, failLeft, down, pre, racing, supVars>>

\* A competing relayer's handshake_step: OpenAck
EnvAck ==
  /\ envLeft > 0
  /\ \E dst \in Chains, dstChan \in ChanIds, srcChan \in ChanIds :
       /\ AckAccepts(dst, dstChan, srcChan)
       /\ chans' = ChainOpenAck(dst, dstChan, srcChan)
  /\ envLeft' = envLeft - 1
  /\ UNCHANGED <<nextId, evlog, drvVars, histVars, failLeft, down, pre, racing, supVars>>

\* A competing relayer's handshake_step: OpenConfirm
EnvConfirm ==
  /\ envLeft > 0
  /\ \E dst \in Chains, dstChan \in ChanIds :
       /\ chans[dst][dstChan].cpChan # NoChan
       /\ ConfirmAccepts(dst, dstChan, chans[dst][dstChan].cpChan)
       /\ chans' = ChainOpenConfirm(dst, dstChan)
  /\ envLeft' = envLeft - 1
  /\ UNCHANGED <<nextId, evlog, drvVars, histVars, failLeft, down, pre, racing, supVars>>

\* build_chan_close_init_and_send by another actor: the end becomes Closed
EnvClose ==
  /\ envLeft > 0
  /\ \E c \in Chains, id \in ChanIds :
       /\ chans[c][id].state \notin {"Uninitialized", "Closed"}
       /\ chans' = ChainCloseInit(c, id)
  /\ envLeft' = envLeft - 1
  /\ UNCHANGED <<nextId, evlog, drvVars, histVars, failLeft, down, pre, racing, supVars>>

\* ================================================================ supervisor
\* supervisor.rs.  The supervisor owns config, registry, workers and the
\* subscriptions; every handler below runs under the locks the code takes,
\* so one handler is one step.
Kinds == {"Client", "Connection", "Channel", "Packet"}

\* Object::for_update_client, connection_from_conn_open_events, ... : the
\* Object of a kind that an event emitted by src_chain concerns.  One
\* client, connection and channel per chain pair.
Object(kind, src_chain) ==
  [kind |-> kind, src |-> src_chain, dst |-> Other(src_chain)]
Objects == {Object(k, c) : k \in Kinds, c \in Chains}

Range(s) == {s[i] : i \in 1..Len(s)}

\* config.mode
Mode(clients, connections, channels, packets, filter) ==
  [clients |-> clients, connections |-> connections, channels |-> channels,
   packets |-> packets, filter |-> filter]
\* the modes of the model: everything enabled and no filter; connections
\* and packets only, filtered
Modes == {Mode(TRUE, TRUE, TRUE, TRUE, FALSE),
          Mode(FALSE, TRUE, FALSE, TRUE, TRUE)}

\* ---- WorkerMap
NoWorkers == [o \in Objects |-> 0]
WorkerMap_contains(ws, object) == ws[object] > 0
WorkerMap_get_or_spawn(ws, object) ==
  IF ws[object] > 0 THEN ws ELSE [ws EXCEPT ![object] = 1]
workers_for_chain(ws, chain_id) ==
  {o \in Objects : ws[o] > 0 /\ o.src = chain_id}
to_notify(ws, chain_id) == workers_for_chain(ws, chain_id)
WorkerMap_shutdown(ws) == NoWorkers

\* ---- Registry
Registry_get_or_spawn(reg, cfg, id, start_fails) ==
  IF id \in reg THEN [ok |-> TRUE, registry |-> reg]
  ELSE IF id \notin Range(cfg) \/ start_fails
       THEN [ok |-> FALSE, registry |-> reg]
       ELSE [ok |-> TRUE, registry |-> reg \cup {id}]
Registry_spawn(reg, id, start_fails) ==
  IF start_fails THEN [ok |-> FALSE, registry |-> reg]
  ELSE [ok |-> TRUE, registry |-> reg \cup {id}]
Registry_shutdown(reg, id) == reg \ {id}

\* ---- SpawnContext
shutdown_workers_for_chain(ws, id) ==
  [o \in Objects |-> IF o.src = id THEN 0 ELSE ws[o]]
RECURSIVE spawn_objects(_, _)
spawn_objects(ws, seed) ==
  IF seed = {} THEN ws
  ELSE LET o == CHOOSE x \in seed : TRUE
       IN spawn_objects(WorkerMap_get_or_spawn(ws, o), seed \ {o})
\* what a scan of chain id seeds: nothing, or every object
Seeds(id) ==
  {{}, {o \in Objects : o.src = id}}

\* ---- event batches
IbcEventTypes ==
  {"NewBlock", "UpdateClient", "OpenInitConnection", "OpenTryConnection",
   "OpenAckConnection", "OpenInitChannel", "OpenTryChannel",
   "OpenAckChannel", "OpenConfirmChannel", "SendPacket", "TimeoutPacket",
   "WriteAcknowledgement", "CloseInitChannel", "ChainError"}
\* the batches of the model: every arm of collect_events, in batches of one
\* event and in batches of two events for one object, for two objects, and
\* with a NewBlock
EventBatches ==
  {<<"NewBlock">>, <<"UpdateClient">>, <<"OpenAckChannel">>,
   <<"OpenConfirmChannel">>, <<"ChainError">>,
   <<"SendPacket", "WriteAcknowledgement">>,
   <<"OpenInitChannel", "NewBlock">>,
   <<"OpenAckConnection", "UpdateClient">>}

NoCollected == [new_block |-> FALSE, per_object |-> [o \in Objects |-> << >>]]

\* as collect_event, but the event is put in front of those collected so far
collect_event_push_front(collected, event, enabled, object_ctor) ==
  IF enabled /\ object_ctor # {}
  THEN LET object == CHOOSE o \in object_ctor : TRUE
       IN [collected EXCEPT !.per_object[object] = <<event>> \o @]
  ELSE collected

collect_event(collected, event, enabled, object_ctor) ==
  IF enabled /\ object_ctor # {}
  THEN LET object == CHOOSE o \in object_ctor : TRUE
       IN [collected EXCEPT !.per_object[object] = Append(@, event)]
  ELSE collected

\* the object_ctor of the UpdateClient arm: the client object, and only if
\* the worker exists
update_client_object_unchecked(ws, src_chain) ==
  {Object("Client", src_chain)}

update_client_object(ws, src_chain) ==
  IF WorkerMap_contains(ws, Object("Client", src_chain))
  THEN {Object("Client", src_chain)} ELSE {}

\* the OpenAckChannel arm
collect_OpenAckChannel_channel_with_packets(collected, m, src_chain, event) ==
  collect_event(
    collect_event(
      collect_event(collected, event, m.clients,
                    {Object("Client", src_chain)}),
      event, m.packets, {Object("Packet", src_chain)}),
    event, m.packets, {Object("Channel", src_chain)})

collect_OpenAckChannel(collected, m, src_chain, event) ==
  collect_event(
    collect_event(
      collect_event(collected, event, m.clients,
                    {Object("Client", src_chain)}),
      event, m.packets, {Object("Packet", src_chain)}),
    event, m.channels, {Object("Channel", src_chain)})

\* the OpenConfirmChannel arm
collect_OpenConfirmChannel_other_chain(collected, m, src_chain, event) ==
  collect_event(
    collect_event(collected, event, m.clients,
                  {Object("Client", Other(src_chain))}),
    event, m.packets, {Object("Packet", src_chain)})

collect_OpenConfirmChannel(collected, m, src_chain, event) ==
  collect_event(
    collect_event(collected, event, m.clients,
                  {Object("Client", src_chain)}),
    event, m.packets, {Object("Packet", src_chain)})

\* one iteration of the loop of collect_events
collect_events_arm(collected, m, ws, src_chain, event) ==
  LET connection == Object("Connection", src_chain)
      channel == Object("Channel", src_chain)
      packet == Object("Packet", src_chain)
  IN CASE event = "NewBlock" -> [collected EXCEPT !.new_block = TRUE]
       [] event = "UpdateClient" ->
            collect_event(collected, event, m.clients,
                          update_client_object(ws, src_chain))
       [] event \in {"OpenInitConnection", "OpenTryConnection",
                     "OpenAckConnection"} ->
            collect_event(collected, event, m.connections, {connection})
       [] event \in {"OpenInitChannel", "OpenTryChannel"} ->
            collect_event(collected, event, m.channels, {channel})
       [] event = "OpenAckChannel" ->
            collect_OpenAckChannel(collected, m, src_chain, event)
       [] event = "OpenConfirmChannel" ->
            collect_OpenConfirmChannel(collected, m, src_chain, event)
       [] event \in {"SendPacket", "TimeoutPacket", "WriteAcknowledgement",
                     "CloseInitChannel"} ->
            collect_event(collected, event, m.packets, {packet})
       [] OTHER -> collected

RECURSIVE collect_events_loop(_, _, _, _, _, _)
collect_events_loop(collected, m, ws, src_chain, events, i) ==
  IF i > Len(events) THEN collected
  ELSE collect_events_loop(
         collect_events_arm(collected, m, ws, src_chain, events[i]),
         m, ws, src_chain, events, i + 1)

collect_events(m, ws, src_chain, events) ==
  collect_events_loop(NoCollected, m, ws, src_chain, events, 1)

\* relay_on_object, filter by filter.  channel_allowed is what
\* config.packets_on_channel_allowed answers for the object's source port
\* and channel, outcome what the FilterPolicy entrypoint of the object's
\* kind returns: "Allow", "Deny" or "Err".  The result: whether to relay,
\* whether the allowlist was consulted, and the entrypoint that was called.
client_filter_enabled(m) == m.filter
channel_filter_enabled(m) == m.filter
NoFilt == [called |-> FALSE, object |-> Object("Client", "A"),
           channel_allowed |-> FALSE, outcome |-> "Allow", relay |-> FALSE,
           allowlist |-> FALSE, control |-> "none"]
control_object(object) ==
  CASE object.kind = "Client" -> "control_client_object"
    [] object.kind = "Connection" -> "control_conn_object"
    [] object.kind = "Channel" -> "control_chan_object"
    [] object.kind = "Packet" -> "control_packet_object"
Relay(relay, allowlist, control) ==
  [relay |-> relay, allowlist |-> allowlist, control |-> control]

\* as relay_on_object_filters, but the client filter comes first
relay_on_object_filters_client_first(m, object, channel_allowed, outcome) ==
  IF ~channel_filter_enabled(m) /\ ~client_filter_enabled(m)
  THEN Relay(TRUE, FALSE, "none")
  ELSE IF outcome # "Allow"
  THEN Relay(FALSE, FALSE, control_object(object))
  ELSE IF object.kind = "Packet"
  THEN Relay(channel_allowed, TRUE, control_object(object))
  ELSE Relay(TRUE, FALSE, control_object(object))

relay_on_object_filters(m, object, channel_allowed, outcome) ==
  IF ~channel_filter_enabled(m) /\ ~client_filter_enabled(m)
  THEN Relay(TRUE, FALSE, "none")
  ELSE IF object.kind = "Packet" /\ ~channel_allowed
  THEN Relay(FALSE, TRUE, "none")
  ELSE Relay(outcome = "Allow", object.kind = "Packet",
             control_object(object))

\* relay_on_object as process_batch calls it: allowed says whether the
\* allowlist and the FilterPolicy both admit the object
relay_on_object(m, object, allowed) ==
  relay_on_object_filters(m, object, allowed,
                          IF allowed THEN "Allow" ELSE "Deny").relay

\* ---- the locks
\* Arc<RwLock<..>> around config, filter, workers and subscriptions, and
\* SharedRegistry.  A guard taken inside the argument list of a call lives
\* to the end of the statement; the guard of the scrutinee of an `if let`
\* lives to the end of the `if let`.  A task's run of its closure is the
\* sequence of its lock operations.
LockNames == {"subscriptions", "config", "registry", "filter", "workers"}
Tasks == {"batch", "cmd", "rest", "loop"}
Acq(lock, write) == [op |-> "acquire", lock |-> lock, write |-> write,
                     drop |-> {}]
Rel(drop) == [op |-> "release", lock |-> "none", write |-> FALSE,
              drop |-> drop]
CmdInputs == {"UpdateConfig_Nothing", "UpdateConfig_ConfigChanged",
              "UpdateConfig_NoChainsAvailable", "DumpState", "Stop"}

\* the closure of spawn_batch_worker: subscriptions.read() for the whole
\* `if let`; with a batch, config.read(), registry.write(),
\* client_state_filter.write(), workers.write() for handle_batch
spawn_batch_worker_locks(received) ==
  <<Acq("subscriptions", FALSE)>>
  \o (IF received
      THEN <<Acq("config", FALSE), Acq("registry", TRUE),
             Acq("filter", TRUE), Acq("workers", TRUE),
             Rel({"config", "registry", "filter", "workers"})>>
      ELSE << >>)
  \o <<Rel({"subscriptions"})>>

\* as spawn_cmd_worker_locks, but update_config is called without the
\* config guard
spawn_cmd_worker_locks_no_config(cmd) ==
  CASE cmd = "DumpState" ->
         <<Acq("registry", FALSE), Acq("workers", FALSE),
           Rel({"registry", "workers"})>>
    [] cmd = "Stop" -> << >>
    [] OTHER ->
         <<Acq("workers", TRUE), Acq("filter", TRUE), Acq("registry", TRUE),
           Rel({"registry", "workers", "filter"})>>
         \o (IF cmd = "UpdateConfig_Nothing" THEN << >>
             ELSE <<Acq("config", FALSE), Acq("registry", TRUE),
                    Rel({"config", "registry"})>>)
         \o (IF cmd = "UpdateConfig_ConfigChanged"
             THEN <<Acq("subscriptions", TRUE), Rel({"subscriptions"})>>
             ELSE << >>)

\* the closure of spawn_cmd_worker, by the command received: update_config
\* under config.write(), registry.write(), workers.write(),
\* client_state_filter.write(); on ConfigChanged init_subscriptions under
\* config.read(), registry.write(), and on Ok subscriptions.write();
\* dump_state under registry.read(), workers.read()
spawn_cmd_worker_locks(cmd) ==
  CASE cmd = "DumpState" ->
         <<Acq("registry", FALSE), Acq("workers", FALSE),
           Rel({"registry", "workers"})>>
    [] cmd = "Stop" -> << >>
    [] OTHER ->
         <<Acq("config", TRUE), Acq("registry", TRUE), Acq("workers", TRUE),
           Acq("filter", TRUE),
           Rel({"config", "registry", "workers", "filter"})>>
         \o (IF cmd = "UpdateConfig_Nothing" THEN << >>
             ELSE <<Acq("config", FALSE), Acq("registry", TRUE),
                    Rel({"config", "registry"})>>)
         \o (IF cmd = "UpdateConfig_ConfigChanged"
             THEN <<Acq("subscriptions", TRUE), Rel({"subscriptions"})>>
             ELSE << >>)

\* the closure of spawn_rest_worker
spawn_rest_worker_locks ==
  <<Acq("config", FALSE), Acq("registry", FALSE), Acq("workers", FALSE),
    Rel({"config", "registry", "workers"})>>

\* run_step: workers, filter and subscriptions are plain fields of the
\* Supervisor, config and registry are locked
run_step_locks(received, cmd) ==
  (IF received
   THEN <<Acq("config", FALSE), Acq("registry", TRUE),
          Rel({"config", "registry"})>>
   ELSE << >>)
  \o (CASE cmd = "DumpState" -> <<Acq("registry", FALSE), Rel({"registry"})>>
        [] cmd \in {"Stop", "none"} -> << >>
        [] OTHER ->
             <<Acq("config", TRUE), Acq("registry", TRUE),
               Rel({"config", "registry"})>>
             \o (IF cmd = "UpdateConfig_Nothing" THEN << >>
                 ELSE <<Acq("config", FALSE), Acq("registry", TRUE),
                        Rel({"config", "registry"})>>))
  \o (IF cmd = "Stop" THEN << >>
      ELSE <<Acq("config", FALSE), Acq("registry", FALSE),
             Rel({"config", "registry"})>>)

NoHolder == [w |-> "none", r |-> {}]
NoLocks == [form |-> "none", writer_first |-> FALSE,
            held |-> [l \in LockNames |-> NoHolder],
            todo |-> [t \in Tasks |-> << >>], ended |-> Tasks]
\* the tasks of a form: the three background tasks, or the inline loop
LocksStart(form, writer_first) ==
  [NoLocks EXCEPT !.form = form, !.writer_first = writer_first,
                  !.ended = IF form = "tasks" THEN {"loop"}
                            ELSE {"batch", "cmd", "rest"}]

\* task t waits in lock.write()
WaitsToWrite(t, l) ==
  /\ locks.todo[t] # << >>
  /\ locks.todo[t][1].op = "acquire"
  /\ locks.todo[t][1].lock = l
  /\ locks.todo[t][1].write
\* the tasks that keep t from getting the guard it asks for next: the
\* writer and, for a write guard, the readers; where the lock lets no
\* reader in past a waiting writer, that writer too
Blockers(t) ==
  IF locks.todo[t] = << >> \/ locks.todo[t][1].op # "acquire" THEN {}
  ELSE LET l == locks.todo[t][1].lock
           h == locks.held[l]
       IN ((IF h.w = "none" THEN {} ELSE {h.w})
           \cup (IF locks.todo[t][1].write THEN h.r
                 ELSE IF locks.writer_first /\ h.w = "none" /\ h.r # {}
                 THEN {u \in Tasks : WaitsToWrite(u, l)} ELSE {})) \ {t}

\* a task starts a run of its closure
task_run(t) ==
  /\ t \notin locks.ended
  /\ locks.todo[t] = << >>
  /\ \E received \in BOOLEAN, cmd \in CmdInputs \cup {"none"} :
       LET todo == CASE t = "batch" -> spawn_batch_worker_locks(received)
                     [] t = "cmd" -> spawn_cmd_worker_locks(cmd)
                     [] t = "rest" -> spawn_rest_worker_locks
                     [] t = "loop" -> run_step_locks(received, cmd)
       IN /\ t \in {"cmd", "loop"} /\ cmd = "Stop" =>
               locks' = [locks EXCEPT !.todo[t] = todo, !.ended = @ \cup {t}]
          /\ ~(t \in {"cmd", "loop"} /\ cmd = "Stop") =>
               /\ todo # << >>
               /\ locks' = [locks EXCEPT !.todo[t] = todo]
  /\ UNCHANGED <<query, wire, filt, callVars, chainVars, drvVars, histVars, scnVars,
                 config, mode, registry, workers, subscriptions, supPc,
                 supFailLeft, supStepsLeft, last>>

\* RwLock::read / RwLock::write returns the guard
lock_acquire(t) ==
  /\ locks.todo[t] # << >>
  /\ locks.todo[t][1].op = "acquire"
  /\ Blockers(t) = {}
  /\ LET l == locks.todo[t][1].lock
     IN locks' = [locks EXCEPT
                    !.todo[t] = Tail(@),
                    !.held[l] = IF locks.todo[t][1].write
                                THEN [@ EXCEPT !.w = t]
                                ELSE [@ EXCEPT !.r = @ \cup {t}]]
  /\ UNCHANGED <<query, wire, filt, callVars, chainVars, drvVars, histVars, scnVars,
                 config, mode, registry, workers, subscriptions, supPc,
                 supFailLeft, supStepsLeft, last>>

\* the end of a statement: its guards are dropped
lock_release(t) ==
  /\ locks.todo[t] # << >>
  /\ locks.todo[t][1].op = "release"
  /\ locks' = [locks EXCEPT
                 !.todo[t] = Tail(@),
                 !.held = [l \in LockNames |->
                             IF l \notin locks.todo[t][1].drop THEN @[l]
                             ELSE [w |-> IF @[l].w = t THEN "none" ELSE @[l].w,
                                   r |-> @[l].r \ {t}]]]
  /\ UNCHANGED <<query, wire, filt, callVars, chainVars, drvVars, histVars, scnVars,
                 config, mode, registry, workers, subscriptions, supPc,
                 supFailLeft, supStepsLeft, last>>

\* ---- Channel::restore_from_state (channel.rs)
RestoreLen == 2   \* channels query_connection_channels returns at most
\* the identified channels of B's connection: the channel id and the
\* counterparty channel id of the channel end (0 = None)
IdentifiedChannels ==
  {<< >>}
  \cup {<<[channel_id |-> i, remote |-> x]>> : i \in 1..RestoreLen, x \in 0..RestoreLen}
  \cup {<<[channel_id |-> p[1], remote |-> x], [channel_id |-> p[2], remote |-> y]>> :
          p \in {q \in (1..RestoreLen) \X (1..RestoreLen) : q[1] # q[2]}, x \in 0..RestoreLen, y \in 0..RestoreLen}
\* the first failure on the way: a query that fails, a channel end with no
\* connection hops, a connection whose counterparty has no connection id
RestoreFaults ==
  {"none", "query_channel", "missing_connection_hops", "query_connection",
   "channel_connection_uninitialized", "query_connection_channels"}
NoRestore ==
  [done |-> FALSE, src_channel_id |-> 1, a_state |-> "Uninitialized",
   a_remote |-> NoChan, b_channels |-> << >>, fault |-> "none",
   ok |-> FALSE, err |-> "none", b_channel_id |-> NoChan,
   state |-> "Uninitialized", scanned |-> FALSE]
RestoreInputs ==
  {[NoRestore EXCEPT !.src_channel_id = i, !.a_state = st, !.a_remote = x,
                     !.b_channels = bs, !.fault = f] :
     i \in 1..RestoreLen, st \in States, x \in 0..RestoreLen,
     bs \in IdentifiedChannels, f \in RestoreFaults}

\* as restore_scan, without the break
RECURSIVE restore_scan_no_break(_, _, _, _)
restore_scan_no_break(b_channels, src_channel_id, found, i) ==
  IF i > Len(b_channels) THEN found
  ELSE IF b_channels[i].remote # NoChan /\ b_channels[i].remote = src_channel_id
  THEN restore_scan_no_break(b_channels, src_channel_id, b_channels[i].channel_id, i + 1)
  ELSE restore_scan_no_break(b_channels, src_channel_id, found, i + 1)

\* the loop over b_channels: handshake_channel.b_side.channel_id when it
\* ends
RECURSIVE restore_scan(_, _, _, _)
restore_scan(b_channels, src_channel_id, found, i) ==
  IF i > Len(b_channels) THEN found
  ELSE IF b_channels[i].remote # NoChan /\ b_channels[i].remote = src_channel_id
  THEN b_channels[i].channel_id
  ELSE restore_scan(b_channels, src_channel_id, found, i + 1)

RestoreErr(err) ==
  [ok |-> FALSE, err |-> err, b_channel_id |-> NoChan,
   state |-> "Uninitialized", scanned |-> FALSE]
restore_from_state(src_channel_id, a_state, a_remote, b_channels, fault) ==
  IF fault = "query_channel" THEN RestoreErr("Relayer")
  ELSE IF fault = "missing_connection_hops" THEN RestoreErr("Supervisor")
  ELSE IF fault = "query_connection" THEN RestoreErr("Relayer")
  ELSE IF fault = "channel_connection_uninitialized"
  THEN RestoreErr("Supervisor")
  ELSE IF a_state = "Init" /\ a_remote = NoChan
  THEN IF fault = "query_connection_channels"
       THEN [RestoreErr("Relayer") EXCEPT !.scanned = TRUE]
       ELSE [ok |-> TRUE, err |-> "none",
             b_channel_id |-> restore_scan(b_channels, src_channel_id,
                                           a_remote, 1),
             state |-> a_state, scanned |-> TRUE]
  ELSE [ok |-> TRUE, err |-> "none", b_channel_id |-> a_remote,
        state |-> a_state, scanned |-> FALSE]

\* ---- Channel::handshake_step, step_state, step_event (channel.rs)
\* how a build_chan_open_*_and_send call ends: with the event of the
\* response, with an error before send_messages, with an error of
\* send_messages or of its response
StepFaults == {"none", "counterparty_state", "build", "send"}
NoStep ==
  [done |-> FALSE, by |-> "state", state |-> "Uninitialized",
   event |-> "NewBlock", counterparty |-> "Uninitialized", fault |-> "none",
   src |-> "A", index |-> 0, msgs |-> << >>, events |-> << >>,
   result |-> "none", retry_index |-> 0]
StepInputs ==
  {[NoStep EXCEPT !.state = st, !.counterparty = c, !.fault = f, !.src = a] :
     st \in States, c \in States, f \in StepFaults, a \in Chains}
  \cup {[NoStep EXCEPT !.by = "event", !.event = e, !.counterparty = c,
                       !.fault = f, !.index = 1] :
          e \in IbcEventTypes, c \in States, f \in StepFaults}

\* build_chan_open_{try,ack,confirm}_and_send: one send_messages call to
\* self.dst_chain()
build_and_send(msg_type, src, fault) ==
  IF fault = "build" THEN [ok |-> FALSE, msgs |-> << >>, events |-> << >>]
  ELSE IF fault = "send"
  THEN [ok |-> FALSE, msgs |-> <<[type |-> msg_type, dst |-> Other(src)]>>,
        events |-> << >>]
  ELSE [ok |-> TRUE, msgs |-> <<[type |-> msg_type, dst |-> Other(src)]>>,
        events |-> <<msg_type>>]

\* as handshake_step_match, with a Confirm sent when both ends are Open
handshake_step_match_confirm_on_open(state, counterparty) ==
  CASE state = "Init" /\ counterparty \in {"Uninitialized", "Init"} -> "OpenTry"
    [] state = "TryOpen" /\ counterparty \in {"Init", "TryOpen"} -> "OpenAck"
    [] state = "Open" /\ counterparty \in {"TryOpen", "Open"} -> "OpenConfirm"
    [] OTHER -> "none"

\* the match on (state, counterparty state)
handshake_step_match(state, counterparty) ==
  CASE state = "Init" /\ counterparty \in {"Uninitialized", "Init"} -> "OpenTry"
    [] state = "TryOpen" /\ counterparty \in {"Init", "TryOpen"} -> "OpenAck"
    [] state = "Open" /\ counterparty = "TryOpen" -> "OpenConfirm"
    [] OTHER -> "none"

handshake_step(state, counterparty, src, fault) ==
  IF fault = "counterparty_state"
  THEN [ok |-> FALSE, msgs |-> << >>, events |-> << >>]
  ELSE LET msg_type == handshake_step_match(state, counterparty)
       IN IF msg_type = "none"
          THEN [ok |-> TRUE, msgs |-> << >>, events |-> << >>]
          ELSE build_and_send(msg_type, src, fault)

step_state(state, index, counterparty, src, fault) ==
  LET r == handshake_step(state, counterparty, src, fault)
  IN [msgs |-> r.msgs, events |-> r.events,
      result |-> IF r.ok THEN "Ok" ELSE "Retry",
      retry_index |-> IF r.ok THEN 0 ELSE index]

\* the state step_event takes an event for
step_event_state(event) ==
  CASE event = "OpenInitChannel" -> "Init"
    [] event = "OpenTryChannel" -> "TryOpen"
    [] event \in {"OpenAckChannel", "OpenConfirmChannel"} -> "Open"
    [] OTHER -> "Uninitialized"

step_event(event, index, counterparty, src, fault) ==
  step_state(step_event_state(event), index, counterparty, src, fault)

\* no call is being looked at
CallIdle ==
  /\ rst = NoRestore
  /\ stp = NoStep
AuxIdle ==
  /\ filt = NoFilt
  /\ locks = NoLocks
  /\ CallIdle

\* one call of Channel::restore_from_state
restore_from_state_call ==
  /\ ~rst.done
  /\ LET r == restore_from_state(rst.src_channel_id, rst.a_state,
                                 rst.a_remote, rst.b_channels, rst.fault)
     IN rst' = [rst EXCEPT !.done = TRUE, !.ok = r.ok, !.err = r.err,
                           !.b_channel_id = r.b_channel_id,
                           !.state = r.state, !.scanned = r.scanned]
  /\ UNCHANGED <<query, wire, filt, locks, stp, chainVars, drvVars, histVars,
                 scnVars, config, mode, registry, workers, subscriptions,
                 supPc, supFailLeft, supStepsLeft, last>>

\* one call of Channel::step_state
step_state_call ==
  /\ ~stp.done
  /\ stp.by = "state"
  /\ LET r == step_state(stp.state, stp.index, stp.counterparty, stp.src,
                         stp.fault)
     IN stp' = [stp EXCEPT !.done = TRUE, !.msgs = r.msgs,
                           !.events = r.events, !.result = r.result,
                           !.retry_index = r.retry_index]
  /\ UNCHANGED <<query, wire, filt, locks, rst, chainVars, drvVars, histVars,
                 scnVars, config, mode, registry, workers, subscriptions,
                 supPc, supFailLeft, supStepsLeft, last>>

\* one call of Channel::step_event
step_event_call ==
  /\ ~stp.done
  /\ stp.by = "event"
  /\ LET r == step_event(stp.event, stp.index, stp.counterparty, stp.src,
                         stp.fault)
     IN stp' = [stp EXCEPT !.done = TRUE, !.state = step_event_state(stp.event),
                           !.msgs = r.msgs, !.events = r.events,
                           !.result = r.result,
                           !.retry_index = r.retry_index]
  /\ UNCHANGED <<query, wire, filt, locks, rst, chainVars, drvVars, histVars,
                 scnVars, config, mode, registry, workers, subscriptions,
                 supPc, supFailLeft, supStepsLeft, last>>

\* one call of relay_on_object under the current config.mode
relay_on_object_call ==
  /\ ~filt.called
  /\ LET r == relay_on_object_filters(mode, filt.object,
                                      filt.channel_allowed, filt.outcome)
     IN filt' = [filt EXCEPT !.called = TRUE, !.relay = r.relay,
                             !.allowlist = r.allowlist,
                             !.control = r.control]
  /\ UNCHANGED <<query, wire, locks, callVars, chainVars, drvVars, histVars, scnVars,
                 config, mode, registry, workers, subscriptions, supPc,
                 supFailLeft, supStepsLeft, last>>

\* ---- process_batch
\* a failure injected into one handler: `at` is the position in the loop it
\* strikes at (0: before the loop), `what` the call that fails: send_new_block,
\* the start of a chain runtime inside registry.get_or_spawn, send_events,
\* clear_pending_packets
NoFault == [at |-> 0, what |-> "none"]
\* the failures that can strike while this batch is handled: send_new_block
\* when there is a worker to notify, the start of a runtime when a configured
\* chain has no handle, send_events, clear_pending_packets; n: the number of
\* objects the loop goes over
BatchFaults(batch, chain, n) ==
  IF supFailLeft = 0 \/ batch.err = "Other" THEN {NoFault}
  ELSE IF batch.err = "SubscriptionCancelled"
  THEN {NoFault} \cup {[at |-> i, what |-> "clear"] : i \in 1..n}
  ELSE {NoFault}
       \cup {[at |-> 0, what |-> "new_block"] :
               e \in {x \in Range(batch.events) :
                        x = "NewBlock" /\ to_notify(workers, chain) # {}}}
       \cup {[at |-> i, what |-> "spawn"] :
               i \in {j \in 1..n : ~(Range(config) \subseteq registry)}}
       \cup {[at |-> i, what |-> "send"] : i \in 1..n}

\* one order of the elements of S
RECURSIVE OneOrder(_)
OneOrder(S) ==
  IF S = {} THEN << >>
  ELSE LET x == CHOOSE y \in S : TRUE IN <<x>> \o OneOrder(S \ {x})
\* The orders in which a HashMap (per_object, the worker map) holding the
\* keys S may be iterated.  What a loop that stops at its first failing call
\* leaves behind depends on the order only through the objects it handled
\* before that call and the object of that call: one order stands for all
\* that agree on both, and when no call fails one order stands for all.
Orders(S, fault) ==
  IF fault.at = 0 THEN {OneOrder(S)}
  ELSE {OneOrder(P) \o <<o>> \o OneOrder(S \ (P \cup {o})) :
          <<o, P>> \in {<<x, Q>> \in S \X SUBSET S :
                          x \notin Q /\ Cardinality(Q) = fault.at - 1}}

\* what a worker is handed: send_new_block(height, new_block) and
\* send_events(height, events, chain_id)
send_new_block(st, object) ==
  [to |-> object, what |-> "new_block", events |-> <<"NewBlock">>,
   height |-> st.height, chain_id |-> st.chain_id]
send_events(st, object) ==
  [to |-> object, what |-> "events", events |-> st.per_object[object],
   height |-> st.height, chain_id |-> st.chain_id]

\* the body of the loop over collected.per_object for an object that passed
\* the filter: both handles, the worker, send_events
process_batch_forward_always_spawn(st, cfg, object, fault) ==
  LET src == Registry_get_or_spawn(st.registry, cfg, object.src,
                                   fault = "spawn")
      dst == Registry_get_or_spawn(src.registry, cfg, object.dst,
                                   fault = "spawn")
      spawned == [st.workers EXCEPT ![object] = IF @ < 2 THEN @ + 1 ELSE @]
  IN IF ~src.ok THEN [st EXCEPT !.ok = FALSE]
     ELSE IF ~dst.ok
     THEN [st EXCEPT !.registry = src.registry, !.ok = FALSE]
     ELSE IF fault = "send"
     THEN [st EXCEPT !.registry = dst.registry, !.workers = spawned,
                     !.ok = FALSE]
     ELSE [st EXCEPT !.registry = dst.registry, !.workers = spawned,
                     !.routed = Append(@, object),
                     !.sends = Append(@, send_events(st, object))]

process_batch_forward(st, cfg, object, fault) ==
  LET src == Registry_get_or_spawn(st.registry, cfg, object.src,
                                   fault = "spawn")
      dst == Registry_get_or_spawn(src.registry, cfg, object.dst,
                                   fault = "spawn")
      worker == WorkerMap_get_or_spawn(st.workers, object)
  IN IF ~src.ok THEN [st EXCEPT !.ok = FALSE]
     ELSE IF ~dst.ok
     THEN [st EXCEPT !.registry = src.registry, !.ok = FALSE]
     ELSE IF fault = "send"
     THEN [st EXCEPT !.registry = dst.registry, !.workers = worker,
                     !.ok = FALSE]
     ELSE [st EXCEPT !.registry = dst.registry, !.workers = worker,
                     !.routed = Append(@, object),
                     !.sends = Append(@, send_events(st, object))]

\* as process_batch_loop, with the error of an object only logged
RECURSIVE process_batch_loop_keeps_going(_, _, _, _, _, _, _)
process_batch_loop_keeps_going(st, cfg, m, order, denied, fault, i) ==
  IF i > Len(order) THEN st
  ELSE IF ~relay_on_object(m, order[i], order[i] \notin denied)
  THEN process_batch_loop_keeps_going(st, cfg, m, order, denied, fault, i + 1)
  ELSE process_batch_loop_keeps_going(
         process_batch_forward(st, cfg, order[i],
                               IF fault.at = i THEN fault.what ELSE "none"),
         cfg, m, order, denied, fault, i + 1)

RECURSIVE process_batch_loop(_, _, _, _, _, _, _)
process_batch_loop(st, cfg, m, order, denied, fault, i) ==
  IF i > Len(order) \/ ~st.ok THEN st
  ELSE IF ~relay_on_object(m, order[i], order[i] \notin denied)
  THEN process_batch_loop(st, cfg, m, order, denied, fault, i + 1)
  ELSE process_batch_loop(
         process_batch_forward(st, cfg, order[i],
                               IF fault.at = i THEN fault.what ELSE "none"),
         cfg, m, order, denied, fault, i + 1)

\* the keys of collected.per_object
CollectedObjects(m, ws, src_chain, events) ==
  LET collected == collect_events(m, ws, src_chain, events)
  IN {o \in Objects : collected.per_object[o] # << >>}

\* the loop over workers.to_notify: the `?` leaves process_batch at the
\* first send_new_block that fails (the failure of the model strikes the
\* first call)
RECURSIVE send_new_block_loop(_, _, _, _)
send_new_block_loop(st, targets, fault, i) ==
  IF i > Len(targets) THEN st
  ELSE IF fault.what = "new_block" /\ i = 1 THEN [st EXCEPT !.ok = FALSE]
  ELSE send_new_block_loop(
         [st EXCEPT !.sends = Append(@, send_new_block(st, targets[i]))],
         targets, fault, i + 1)

\* as process_batch, but the per-object events go out first and the NewBlock
\* after them
process_batch_events_first(cfg, m, reg, ws, src_chain, batch, order, denied, fault) ==
  LET collected == collect_events(m, ws, src_chain, batch.events)
      st == [registry |-> reg, workers |-> ws, routed |-> << >>,
             cleared |-> {}, ok |-> TRUE, sends |-> << >>,
             height |-> batch.height, chain_id |-> src_chain,
             per_object |-> collected.per_object]
      looped == process_batch_loop(st, cfg, m, order, denied, fault, 1)
  IN IF collected.new_block /\ looped.ok
     THEN send_new_block_loop(looped, OneOrder(to_notify(ws, src_chain)),
                              fault, 1)
     ELSE looped

\* order: the order in which the HashMap per_object is iterated
process_batch(cfg, m, reg, ws, src_chain, batch, order, denied, fault) ==
  LET collected == collect_events(m, ws, src_chain, batch.events)
      st == [registry |-> reg, workers |-> ws, routed |-> << >>,
             cleared |-> {}, ok |-> TRUE, sends |-> << >>,
             height |-> batch.height, chain_id |-> src_chain,
             per_object |-> collected.per_object]
      notified == IF collected.new_block
                  THEN send_new_block_loop(
                         st, OneOrder(to_notify(ws, src_chain)), fault, 1)
                  ELSE st
  IN process_batch_loop(notified, cfg, m, order, denied, fault, 1)

\* order: the order in which workers_for_chain yields the workers; cleared:
\* the workers clear_pending_packets was called on; the `?` leaves the loop
\* at the first call that reports an error
RECURSIVE clear_pending_packets_loop(_, _, _, _)
clear_pending_packets_loop(order, fault, cleared, i) ==
  IF i > Len(order) THEN [ok |-> TRUE, cleared |-> cleared]
  ELSE IF fault.what = "clear" /\ fault.at = i
  THEN [ok |-> FALSE, cleared |-> cleared \cup {order[i]}]
  ELSE clear_pending_packets_loop(order, fault, cleared \cup {order[i]},
                                  i + 1)

clear_pending_packets(ws, chain_id, order, fault) ==
  clear_pending_packets_loop(
    SelectSeq(order, LAMBDA o : o \in workers_for_chain(ws, chain_id)),
    fault, {}, 1)

\* batch.err: "none", "SubscriptionCancelled" or another monitor error
handle_batch(cfg, m, reg, ws, chain, batch, order, denied, fault) ==
  CASE batch.err = "none" ->
         process_batch(cfg, m, reg, ws, chain, batch, order, denied, fault)
    [] batch.err = "SubscriptionCancelled" ->
         LET r == clear_pending_packets(ws, chain, order, fault)
         IN [registry |-> reg, workers |-> ws, routed |-> << >>,
             cleared |-> r.cleared, ok |-> r.ok, sends |-> << >>]
    [] OTHER ->
         [registry |-> reg, workers |-> ws, routed |-> << >>,
          cleared |-> {}, ok |-> TRUE, sends |-> << >>]

\* ---- init_subscriptions
RECURSIVE init_subscriptions_loop(_, _, _, _, _, _)
init_subscriptions_loop(cfg, reg, subs, start_fails, subscribe_fails, i) ==
  IF i > Len(cfg) THEN [registry |-> reg, subs |-> subs]
  ELSE LET chain == Registry_get_or_spawn(reg, cfg, cfg[i],
                                          cfg[i] \in start_fails)
       IN IF ~chain.ok
          THEN init_subscriptions_loop(cfg, reg, subs, start_fails,
                                       subscribe_fails, i + 1)
          ELSE init_subscriptions_loop(
                 cfg, chain.registry,
                 IF cfg[i] \in subscribe_fails THEN subs
                 ELSE Append(subs, cfg[i]),
                 start_fails, subscribe_fails, i + 1)

init_subscriptions(cfg, reg, start_fails, subscribe_fails) ==
  LET r == init_subscriptions_loop(cfg, reg, << >>, start_fails,
                                   subscribe_fails, 1)
  IN IF r.registry = {}
     THEN [err |-> "NoChainsAvailable", registry |-> r.registry,
           subs |-> << >>]
     ELSE [err |-> "none", registry |-> r.registry, subs |-> r.subs]

\* ---- commands
remove_chain_keep_workers(st, id) ==
  IF id \notin Range(st.config) THEN [st EXCEPT !.effect = "Nothing"]
  ELSE [config |-> SelectSeq(st.config, LAMBDA c : c # id),
        workers |-> st.workers,
        registry |-> Registry_shutdown(st.registry, id),
        effect |-> "ConfigChanged"]

remove_chain_keep_handle(st, id) ==
  IF id \notin Range(st.config) THEN [st EXCEPT !.effect = "Nothing"]
  ELSE [config |-> SelectSeq(st.config, LAMBDA c : c # id),
        workers |-> shutdown_workers_for_chain(st.workers, id),
        registry |-> st.registry,
        effect |-> "ConfigChanged"]

\* what remove_chain holds after each of its statements, in order
RemoveStep(op, cfg, ws, reg) ==
  [op |-> op, config |-> cfg, workers |-> ws, registry |-> reg]

\* as remove_chain_steps, but the handle is shut down before the workers
remove_chain_steps_handle_first(st, id) ==
  LET retained == SelectSeq(st.config, LAMBDA c : c # id)
  IN <<RemoveStep("retain", retained, st.workers, st.registry),
       RemoveStep("registry.shutdown", retained, st.workers,
                  Registry_shutdown(st.registry, id)),
       RemoveStep("shutdown_workers_for_chain", retained,
                  shutdown_workers_for_chain(st.workers, id),
                  Registry_shutdown(st.registry, id))>>

\* remove_chain past has_chain: config.chains.retain, then
\* ctx.shutdown_workers_for_chain, then registry.shutdown
remove_chain_steps(st, id) ==
  LET retained == SelectSeq(st.config, LAMBDA c : c # id)
  IN <<RemoveStep("retain", retained, st.workers, st.registry),
       RemoveStep("shutdown_workers_for_chain", retained,
                  shutdown_workers_for_chain(st.workers, id), st.registry),
       RemoveStep("registry.shutdown", retained,
                  shutdown_workers_for_chain(st.workers, id),
                  Registry_shutdown(st.registry, id))>>

remove_chain(st, id) ==
  IF id \notin Range(st.config) THEN [st EXCEPT !.effect = "Nothing"]
  ELSE LET steps == remove_chain_steps(st, id)
           end == steps[Len(steps)]
       IN [config |-> end.config, workers |-> end.workers,
           registry |-> end.registry, effect |-> "ConfigChanged"]

\* as add_chain, but the appended chain config stays when registry.spawn
\* fails
add_chain_no_rollback(st, id, start_fails, seed) ==
  IF id \in Range(st.config) THEN [st EXCEPT !.effect = "Nothing"]
  ELSE LET pushed == Append(st.config, id)
           chain == Registry_spawn(st.registry, id, start_fails)
       IN IF ~chain.ok
          THEN [st EXCEPT !.config = pushed, !.effect = "Nothing"]
          ELSE [config |-> pushed,
                workers |-> spawn_objects(st.workers, seed),
                registry |-> chain.registry,
                effect |-> "ConfigChanged"]

add_chain(st, id, start_fails, seed) ==
  IF id \in Range(st.config) THEN [st EXCEPT !.effect = "Nothing"]
  ELSE LET pushed == Append(st.config, id)
           chain == Registry_spawn(st.registry, id, start_fails)
       IN IF ~chain.ok
          THEN [st EXCEPT !.config = SelectSeq(pushed, LAMBDA c : c # id),
                          !.effect = "Nothing"]
          ELSE [config |-> pushed,
                workers |-> spawn_objects(st.workers, seed),
                registry |-> chain.registry,
                effect |-> "ConfigChanged"]

CmdEffect_or(removed, added) ==
  IF removed = "ConfigChanged" THEN "ConfigChanged" ELSE added

\* as update_chain, but without the removal
update_chain_add_only(st, id, start_fails, seed) ==
  add_chain(st, id, start_fails, seed)

update_chain(st, id, start_fails, seed) ==
  LET removed == remove_chain(st, id)
      added == add_chain(removed, id, start_fails, seed)
  IN [added EXCEPT !.effect = CmdEffect_or(removed.effect, added.effect)]

update_config(st, update, start_fails, seed) ==
  CASE update.kind = "Add" -> add_chain(st, update.id, start_fails, seed)
    [] update.kind = "Remove" -> remove_chain(st, update.id)
    [] update.kind = "Update" ->
         update_chain(st, update.id, start_fails, seed)

\* run_step after update_config: on ConfigChanged the subscriptions are
\* rebuilt; NoChainsAvailable keeps the old ones, another error ends the loop
resubscribe_drop_on_no_chains(effect, new_subscriptions, subs) ==
  IF effect # "ConfigChanged" THEN [subs |-> subs, err |-> "none"]
  ELSE IF new_subscriptions.err = "none"
  THEN [subs |-> new_subscriptions.subs, err |-> "none"]
  ELSE IF new_subscriptions.err = "NoChainsAvailable"
  THEN [subs |-> << >>, err |-> "none"]
  ELSE [subs |-> subs, err |-> new_subscriptions.err]

resubscribe(effect, new_subscriptions, subs) ==
  IF effect # "ConfigChanged" THEN [subs |-> subs, err |-> "none"]
  ELSE IF new_subscriptions.err = "none"
  THEN [subs |-> new_subscriptions.subs, err |-> "none"]
  ELSE IF new_subscriptions.err = "NoChainsAvailable"
  THEN [subs |-> subs, err |-> "none"]
  ELSE [subs |-> subs, err |-> new_subscriptions.err]

\* ---- the steps of the supervisor
Spawned(before, after) == {o \in Objects : after[o] > before[o]}
Removed(before, after) == {o \in Objects : after[o] < before[o]}
LiveObjects(ws) == {o \in Objects : ws[o] > 0}

\* the faults of a command step: registry.spawn fails, or inside
\* init_subscriptions get_or_spawn or subscribe fails for some chains
NoCmdFault == [spawn |-> FALSE, start |-> {}, subscribe |-> {}]
\* the failures that can strike init_subscriptions(cfg, reg): the runtime of
\* a configured chain without a handle does not start, or subscribe fails
CmdFaults(cfg, reg) ==
  IF supFailLeft = 0 THEN {NoCmdFault}
  ELSE {NoCmdFault}
       \cup {[NoCmdFault EXCEPT !.start = {c}] : c \in Range(cfg) \ reg}
       \cup {[NoCmdFault EXCEPT !.subscribe = S] :
               S \in SUBSET Range(cfg) \ {{}}}
\* registry.spawn is called, and may fail, when add_chain gets past has_chain
SpawnFaults(cfg, kind, id) ==
  IF /\ supFailLeft > 0
     /\ \/ kind = "Update"
        \/ kind = "Add" /\ id \notin Range(cfg)
  THEN {FALSE, TRUE} ELSE {FALSE}

\* what the supervisor held before a command: config.chains, the chains of
\* the registry, the objects of the worker map
NoSnapshot == [config |-> << >>, registry |-> {}, objects |-> {}]
Snapshot(cfg, reg, ws) ==
  [config |-> cfg, registry |-> reg, objects |-> LiveObjects(ws)]

\* last: what the last step of the supervisor did.
\*   op        "start", "batch", "cmd", "dump", "stop"
\*   a batch:  its chain, events and monitor error, what collect_events
\*             collected, the objects events were sent to whose worker existed
\*             before the step, the objects a worker was spawned or removed
\*             for, the workers clear_pending_packets was called on
\*             its height, the send_new_block and send_events calls that
\*             were made, in order, the workers to_notify yielded, whether
\*             the handler ran to its end, the order in which per_object
\*             was iterated, the objects the filters refuse, the call an
\*             error was injected into
\*   acked     reply_to.send(()) of a Stop was called
\*   a command: its kind and chain id, the CmdEffect, the result of the
\*             rebuild of the subscriptions ("skipped" when there was none)
\*   fault     the failures injected into init_subscriptions and registry.spawn
\*   undo, before:  the command was Remove(id) right after Add(id); what
\*             the supervisor held before that Add
NoLast ==
  [op |-> "none", chain |-> "none", events |-> << >>, err |-> "none",
   per_object |-> NoCollected.per_object, reused |-> {}, spawned |-> {},
   removed |-> {}, cleared |-> {}, kind |-> "none", id |-> "none",
   effect |-> "Nothing", rebuild |-> "skipped", fault |-> NoCmdFault,
   undo |-> FALSE, before |-> NoSnapshot, height |-> 0, sends |-> << >>,
   notify |-> {}, ok |-> TRUE, acked |-> FALSE, order |-> << >>,
   denied |-> {}, failed |-> NoFault]

ConfigInputs == {<< >>, <<"A">>, <<"A", "B">>}
\* EventBatch.height: the batches of one event come at height 2, those of
\* two events at height 3; an error of the monitor carries no batch
BatchInputs ==
  {[err |-> "none", events |-> e, height |-> 1 + Len(e)] : e \in EventBatches}
  \cup {[err |-> e, events |-> << >>, height |-> 0] :
          e \in {"SubscriptionCancelled", "Other"}}

StartSeeds(id) == IF id \in Range(config) THEN Seeds(id) ELSE {{}}

\* run_without_health_check up to the loop: spawn_workers, init_subscriptions
run_without_health_check ==
  /\ supPc = "new"
  /\ \E seed \in {a \cup b : a \in StartSeeds("A"), b \in StartSeeds("B")},
        f \in CmdFaults(config, registry) :
       LET subs == init_subscriptions(config, registry, f.start, f.subscribe)
       IN /\ workers' = spawn_objects(workers, seed)
          /\ registry' = subs.registry
          /\ subscriptions' = subs.subs
          /\ supPc' = IF subs.err = "none" THEN "running" ELSE "failed"
          /\ last' = [NoLast EXCEPT !.op = "start", !.rebuild = subs.err,
                                    !.fault = f]
          /\ supFailLeft' =
               IF f = NoCmdFault THEN supFailLeft ELSE supFailLeft - 1
  /\ UNCHANGED <<config, mode, supStepsLeft, hsVars>>

\* try_recv_multiple yields a batch of one of the subscriptions, and
\* handle_batch
recv_and_handle_batch ==
  /\ supStepsLeft > 0
  /\ supStepsLeft' = supStepsLeft - 1
  /\ \E i \in 1..Len(subscriptions), batch \in BatchInputs :
       \E chain \in {subscriptions[i]} :
       \E objs \in {IF batch.err = "SubscriptionCancelled"
                    THEN workers_for_chain(workers, chain)
                    ELSE CollectedObjects(mode, workers, chain,
                                          batch.events)} :
          \E fault \in BatchFaults(batch, chain, Cardinality(objs)),
             denied \in (IF mode.filter /\ batch.err = "none"
                         THEN SUBSET objs ELSE {{}}) :
           \E order \in Orders(objs, fault) :
            \E r \in {handle_batch(config, mode, registry, workers, chain,
                                   batch, order, denied, fault)} :
               /\ registry' = r.registry
               /\ workers' = r.workers
               /\ last' =
                    [NoLast EXCEPT
                       !.op = "batch", !.chain = chain,
                       !.events = batch.events, !.err = batch.err,
                       !.per_object =
                         collect_events(mode, workers, chain,
                                        batch.events).per_object,
                       !.reused = {o \in Range(r.routed) : workers[o] > 0},
                       !.spawned = Spawned(workers, r.workers),
                       !.removed = Removed(workers, r.workers),
                       !.cleared = r.cleared,
                       !.height = batch.height, !.sends = r.sends,
                       !.notify = to_notify(workers, chain), !.ok = r.ok,
                       !.order = order, !.denied = denied,
                       !.failed = fault]
               /\ supFailLeft' =
                    IF fault = NoFault THEN supFailLeft ELSE supFailLeft - 1
  /\ UNCHANGED <<config, mode, subscriptions, supPc, hsVars>>

\* run_step, first part
run_step_batch == supPc = "running" /\ recv_and_handle_batch

\* SupervisorCmd::UpdateConfig: update_config and, on ConfigChanged, the
\* rebuild of the subscriptions; fatal: where an error of the rebuild other
\* than NoChainsAvailable leaves the caller
cmd_UpdateConfig(fatal) ==
  /\ supStepsLeft > 0
  /\ supStepsLeft' = supStepsLeft - 1
  /\ \E kind \in {"Add", "Remove", "Update"}, id \in Chains :
      \E spawn_fails \in SpawnFaults(config, kind, id) :
       \E seed \in (IF \/ kind = "Remove"
                       \/ spawn_fails
                       \/ kind = "Add" /\ id \in Range(config)
                    THEN {{}} ELSE Seeds(id)) :
        \E u \in {update_config(
                    [config |-> config, workers |-> workers,
                     registry |-> registry, effect |-> "Nothing"],
                    [kind |-> kind, id |-> id], spawn_fails, seed)} :
         \E f \in (IF spawn_fails \/ u.effect # "ConfigChanged"
                   THEN {[NoCmdFault EXCEPT !.spawn = spawn_fails]}
                   ELSE CmdFaults(u.config, u.registry)) :
         LET subs == init_subscriptions(u.config, u.registry, f.start,
                                        f.subscribe)
             re == resubscribe(u.effect, subs, subscriptions)
         IN /\ config' = u.config
            /\ workers' = u.workers
            /\ registry' = IF u.effect = "ConfigChanged" THEN subs.registry
                           ELSE u.registry
            /\ subscriptions' = re.subs
            /\ supPc' = IF re.err = "none" THEN supPc ELSE fatal
            /\ last' =
                 [NoLast EXCEPT
                    !.op = "cmd", !.kind = kind, !.id = id,
                    !.effect = u.effect,
                    !.spawned = Spawned(workers, u.workers),
                    !.removed = Removed(workers, u.workers),
                    !.rebuild = IF u.effect = "ConfigChanged" THEN subs.err
                                ELSE "skipped",
                    !.fault = f,
                    !.undo = /\ kind = "Remove"
                             /\ last.op = "cmd" /\ last.kind = "Add"
                             /\ last.id = id,
                    !.before =
                      IF kind = "Add"
                      THEN Snapshot(config, registry, workers)
                      ELSE IF /\ kind = "Remove"
                              /\ last.op = "cmd" /\ last.kind = "Add"
                              /\ last.id = id
                      THEN last.before
                      ELSE NoSnapshot]
            /\ supFailLeft' =
                 IF f = NoCmdFault THEN supFailLeft ELSE supFailLeft - 1
  /\ UNCHANGED <<mode, hsVars>>

\* run_step, SupervisorCmd::UpdateConfig
run_step_UpdateConfig == supPc = "running" /\ cmd_UpdateConfig("failed")

\* SupervisorCmd::DumpState
cmd_DumpState ==
  /\ supStepsLeft > 0
  /\ supStepsLeft' = supStepsLeft - 1
  /\ last' = [NoLast EXCEPT !.op = "dump"]
  /\ UNCHANGED <<config, mode, registry, workers, subscriptions, supPc,
                 supFailLeft, hsVars>>

\* run_step, SupervisorCmd::DumpState
run_step_DumpState == supPc = "running" /\ cmd_DumpState

\* run_step, SupervisorCmd::Stop (reply_to.send, StepResult::Break), and the
\* end of the loop of run_without_health_check: workers.shutdown()
run_step_Stop ==
  /\ supPc = "running"
  /\ supStepsLeft > 0
  /\ supStepsLeft' = supStepsLeft - 1
  /\ supPc' = "stopped"
  /\ workers' = WorkerMap_shutdown(workers)
  /\ last' = [NoLast EXCEPT !.op = "stop", !.acked = TRUE]
  /\ UNCHANGED <<config, mode, registry, subscriptions, supFailLeft, hsVars>>

\* ---- the supervisor as background tasks
\* supPc: "tasks" while the batch task and the command task run,
\* "cmd_ended" when the command task has returned an error (Abort or Fatal)
\* and the batch task goes on.
\* spawn_supervisor_tasks up to the spawning of the tasks: spawn_workers,
\* init_subscriptions
spawn_supervisor_tasks ==
  /\ supPc = "new"
  /\ \E seed \in {a \cup b : a \in StartSeeds("A"), b \in StartSeeds("B")},
        f \in CmdFaults(config, registry) :
       LET subs == init_subscriptions(config, registry, f.start, f.subscribe)
       IN /\ workers' = spawn_objects(workers, seed)
          /\ registry' = subs.registry
          /\ subscriptions' = subs.subs
          /\ supPc' = IF subs.err = "none" THEN "tasks" ELSE "failed"
          /\ last' = [NoLast EXCEPT !.op = "start", !.rebuild = subs.err,
                                    !.fault = f]
          /\ supFailLeft' =
               IF f = NoCmdFault THEN supFailLeft ELSE supFailLeft - 1
  /\ UNCHANGED <<config, mode, supStepsLeft, hsVars>>

\* one run of the closure of the batch task
spawn_batch_worker ==
  /\ supPc \in {"tasks", "cmd_ended"}
  /\ recv_and_handle_batch

\* one run of the closure of the command task, by the command received
spawn_cmd_worker_UpdateConfig ==
  supPc = "tasks" /\ cmd_UpdateConfig("cmd_ended")

spawn_cmd_worker_DumpState == supPc = "tasks" /\ cmd_DumpState

\* SupervisorCmd::Stop: reply_to.send and TaskError::Abort, which ends the
\* command task
spawn_cmd_worker_Stop ==
  /\ supPc = "tasks"
  /\ supStepsLeft > 0
  /\ supStepsLeft' = supStepsLeft - 1
  /\ supPc' = "cmd_ended"
  /\ last' = [NoLast EXCEPT !.op = "stop", !.acked = TRUE]
  /\ UNCHANGED <<config, mode, registry, workers, subscriptions, supFailLeft,
                 hsVars>>

\* the supervisor before it is started
SupIdle ==
  /\ config = << >>
  /\ mode = Mode(TRUE, TRUE, TRUE, TRUE, FALSE)
  /\ registry = {}
  /\ workers = NoWorkers
  /\ subscriptions = << >>
  /\ supPc = "new"
  /\ supFailLeft = 0
  /\ supStepsLeft = 0
  /\ last = NoLast

SupInit ==
  /\ config \in ConfigInputs
  /\ mode \in Modes
  /\ registry = {}
  /\ workers = NoWorkers
  /\ subscriptions = << >>
  /\ supPc = "new"
  /\ supFailLeft = MaxSupFail
  /\ supStepsLeft = MaxSupSteps
  /\ last = NoLast

SupNext ==
  \/ run_without_health_check
  \/ run_step_batch
  \/ run_step_UpdateConfig
  \/ run_step_DumpState
  \/ run_step_Stop

\* ================================================================== requests
\* chain/requests.rs: HeightQuery and its two conversions onto the wire.
\* u64 is scaled to HeightBits bits; tendermint's block::Height accepts a
\* u64 that fits an i64, that is, one whose top bit is clear.
U64_MAX == 2^HeightBits - 1
I64_MAX == 2^(HeightBits - 1) - 1

NoQuery == [tag |-> "none", revision_number |-> 0, revision_height |-> 0]
HeightQueries ==
  {[tag |-> "Latest", revision_number |-> 0, revision_height |-> 0]}
  \cup {[tag |-> "Specific", revision_number |-> n, revision_height |-> h] :
          n \in 0..1, h \in 0..U64_MAX}

\* as HeightQuery_height, but the revision number is taken for the height
HeightQuery_height_revision_number(height_query) ==
  IF height_query.tag = "Latest" THEN 0 ELSE height_query.revision_number

\* the match on height_query, the same in both conversions
HeightQuery_height(height_query) ==
  IF height_query.tag = "Latest" THEN 0 ELSE height_query.revision_height

\* u64::to_string: the decimal digits, most significant first
RECURSIVE to_string(_)
to_string(n) ==
  IF n < 10 THEN <<n>> ELSE to_string(n \div 10) \o <<n % 10>>

NoWire == [done |-> FALSE, ok |-> FALSE, height |-> 0, value |-> << >>,
           err |-> "none"]

\* TryFrom<HeightQuery> for TMBlockHeight
TMBlockHeight_try_from(height_query) ==
  LET height == HeightQuery_height(height_query)
  IN IF height <= I64_MAX
     THEN [NoWire EXCEPT !.done = TRUE, !.ok = TRUE, !.height = height]
     ELSE [NoWire EXCEPT !.done = TRUE, !.err = "InvalidHeight"]

\* TryFrom<HeightQuery> for AsciiMetadataValue: the decimal string is made
\* of visible ASCII characters, so str::parse accepts it
AsciiMetadataValue_try_from(height_query) ==
  LET height == HeightQuery_height(height_query)
  IN [NoWire EXCEPT !.done = TRUE, !.ok = TRUE, !.value = to_string(height)]

\* a request marshals its height as the block height of an RPC query
marshal_block_height ==
  /\ query # NoQuery
  /\ ~wire.block.done
  /\ wire' = [wire EXCEPT !.block = TMBlockHeight_try_from(query)]
  /\ UNCHANGED <<query, auxVars, chainVars, drvVars, histVars, scnVars, config, mode,
                 registry, workers, subscriptions, supPc, supFailLeft,
                 supStepsLeft, last>>

\* a request marshals its height as the gRPC metadata value
marshal_metadata_value ==
  /\ query # NoQuery
  /\ ~wire.metadata.done
  /\ wire' = [wire EXCEPT !.metadata = AsciiMetadataValue_try_from(query)]
  /\ UNCHANGED <<query, auxVars, chainVars, drvVars, histVars, scnVars, config, mode,
                 registry, workers, subscriptions, supPc, supFailLeft,
                 supStepsLeft, last>>

\* no request is being marshalled
ReqIdle ==
  /\ query = NoQuery
  /\ wire = [block |-> NoWire, metadata |-> NoWire]
  /\ AuxIdle

\* ------------------------------------------------------------ specification
PreChans(p) ==
  [c \in Chains |-> [id \in ChanIds |->
     IF id = 1 /\ p = "init" /\ c = "A"
     THEN ChannelEnd("Init", PortOf("B"), NoChan, ConnOf("A"))
     ELSE IF id = 1 /\ p = "open"
     THEN ChannelEnd("Open", PortOf(Other(c)), 1, ConnOf(c))
     ELSE NoEnd]]

PreNextId(p) ==
  [c \in Chains |-> IF p = "open" \/ (p = "init" /\ c = "A") THEN 2 ELSE 1]

HsStart(env) ==
  /\ pre \in {"none", "init", "open"}
  /\ chans = PreChans(pre)
  /\ nextId = PreNextId(pre)
  /\ evlog = [r \in Relayers |-> << >>]
  /\ pc = [r \in Relayers |-> "idle"]
  /\ drv = [r \in Relayers |-> [c \in Chains |-> NoChan]]
  /\ retry = [r \in Relayers |-> RetryInit]
  /\ fin = [r \in Relayers |-> FinInit]
  /\ result = [r \in Relayers |-> NoResult]
  /\ nsend = [r \in Relayers |-> [m \in MsgTypes |-> 0]]
  /\ sentmsg = [r \in Relayers |-> NoMsg]
  /\ att = [r \in Relayers |-> [ph \in Phases |-> 0]]
  /\ retried = [r \in Relayers |-> {}]
  /\ failLeft = MaxFail
  /\ down \in {"none", "A", "B"}
  /\ racing \in BOOLEAN
  /\ racing => (pre = "none" /\ down = "none")
  \* the second relayer is one of the competing actors
  /\ envLeft = IF racing /\ env > 0 THEN env - 1 ELSE env
  /\ SupIdle
  /\ ReqIdle

HsInit == HsStart(MaxEnv)

HsNext ==
  \/ \E r \in Relayers : ChannelNew(r)
  \/ \E r \in Relayers : do_chan_open_init_and_send(r)
  \/ \E r \in Relayers : do_chan_open_try_and_send(r)
  \/ \E r \in Relayers : query_channel_states_a(r)
  \/ \E r \in Relayers : do_chan_open_finalize(r)
  \/ \E r \in Relayers : expect_channel_states(r)
  \/ \E r \in Relayers : build_chan_open_ack_and_send(r)
  \/ \E r \in Relayers : build_chan_open_confirm_and_send(r)
  \/ EnvTry
  \/ EnvAck
  \/ EnvConfirm
  \/ EnvClose

vars == <<hsVars, supVars>>

Init == HsInit
Next == HsNext
Spec == Init /\ [][Next]_vars

\* handshake() runs on a thread of its own: a relayer that can take a step
\* eventually takes one
RelayerStep(r) ==
  \/ ChannelNew(r)
  \/ do_chan_open_init_and_send(r)
  \/ do_chan_open_try_and_send(r)
  \/ query_channel_states_a(r)
  \/ do_chan_open_finalize(r)
  \/ expect_channel_states(r)
  \/ build_chan_open_ack_and_send(r)
  \/ build_chan_open_confirm_and_send(r)

\* One relayer alone with the two chains: no second relayer, no competing
\* actor; RPC failures and a chain that is down remain
SoloInit == HsStart(0) /\ ~racing
SoloNext ==
  \/ \E r \in Relayers : ChannelNew(r)
  \/ \E r \in Relayers : do_chan_open_init_and_send(r)
  \/ \E r \in Relayers : do_chan_open_try_and_send(r)
  \/ \E r \in Relayers : query_channel_states_a(r)
  \/ \E r \in Relayers : do_chan_open_finalize(r)
  \/ \E r \in Relayers : expect_channel_states(r)
  \/ \E r \in Relayers : build_chan_open_ack_and_send(r)
  \/ \E r \in Relayers : build_chan_open_confirm_and_send(r)
SoloSpec ==
  SoloInit /\ [][SoloNext]_vars /\ \A r \in Relayers : WF_vars(RelayerStep(r))

\* The supervisor alone: no handshake driver has been created, there is no
\* relayer and no channel
HsIdle ==
  /\ chans = << >>
  /\ nextId = << >>
  /\ evlog = << >>
  /\ pc = << >>
  /\ drv = << >>
  /\ retry = << >>
  /\ fin = << >>
  /\ result = << >>
  /\ nsend = << >>
  /\ sentmsg = << >>
  /\ att = << >>
  /\ retried = << >>
  /\ failLeft = 0
  /\ down = "none"
  /\ envLeft = 0
  /\ pre = "none"
  /\ racing = FALSE

SupStart == HsIdle /\ SupInit /\ ReqIdle
SupSpec == SupStart /\ [][SupNext]_vars

\* The supervisor as spawn_supervisor_tasks runs it
TaskNext ==
  \/ spawn_supervisor_tasks
  \/ spawn_batch_worker
  \/ spawn_cmd_worker_UpdateConfig
  \/ spawn_cmd_worker_DumpState
  \/ spawn_cmd_worker_Stop
TaskSpec == SupStart /\ [][TaskNext]_vars

\* collect_events under every combination of the enable flags of config.mode:
\* a supervisor of two chains that starts without failures and handles
\* batches
AllModes ==
  {Mode(clients, connections, channels, packets, FALSE) :
     clients \in BOOLEAN, connections \in BOOLEAN, channels \in BOOLEAN,
     packets \in BOOLEAN}
CollectInit ==
  /\ HsIdle
  /\ config = <<"A", "B">>
  /\ mode \in AllModes
  /\ registry = {}
  /\ workers = NoWorkers
  /\ subscriptions = << >>
  /\ supPc = "new"
  /\ supFailLeft = 0
  /\ supStepsLeft = MaxCollectSteps
  /\ last = NoLast
  /\ ReqIdle
CollectNext ==
  \/ run_without_health_check
  \/ run_step_batch
CollectSpec == CollectInit /\ [][CollectNext]_vars

\* The two conversions of every HeightQuery, with no relayer and no
\* supervisor running
ReqInit ==
  /\ HsIdle
  /\ SupIdle
  /\ query \in HeightQueries
  /\ wire = [block |-> NoWire, metadata |-> NoWire]
  /\ AuxIdle
ReqNext ==
  \/ marshal_block_height
  \/ marshal_metadata_value
ReqSpec == ReqInit /\ [][ReqNext]_vars

\* A driver that resumes a handshake others may have touched: r1 holds the
\* channel id 1 for chain A, and for chain B either the id 1 or none, and
\* stands before its OpenTry or before do_chan_open_finalize; the ends the
\* two chains store under id 1 are any ends, made by this relayer or by
\* others: any state, the counterparty port of the driver or another one,
\* the counterparty channel id unset, 1 or 2, and the connection of the
\* driver or, with the driver's counterparty, another one
ResumeEnds(c) ==
  {NoEnd}
  \cup {ChannelEnd(s, port, cp, ConnOf(c)) :
          s \in States \ {"Uninitialized"},
          port \in {PortOf(Other(c)), "portX"}, cp \in {NoChan, 1, 2}}
  \cup {ChannelEnd(s, PortOf(Other(c)), 1, "connX") :
          s \in States \ {"Uninitialized"}}
ResumeInit ==
  /\ pre = "none"
  /\ \E a \in ResumeEnds("A"), b \in ResumeEnds("B") :
       chans = [c \in Chains |-> [id \in ChanIds |->
                  IF id # 1 THEN NoEnd ELSE IF c = "A" THEN a ELSE b]]
  /\ nextId = [c \in Chains |-> 2]
  /\ evlog = [r \in Relayers |-> << >>]
  /\ \E at \in {"try", "fqa"} :
       /\ pc = [r \in Relayers |-> IF r = "r1" THEN at ELSE "idle"]
       /\ att = [r \in Relayers |-> [ph \in Phases |->
                   IF r = "r1" /\ ph = PhaseOf(at) THEN 1 ELSE 0]]
       /\ \E b_id \in {NoChan, 1} :
            /\ at = "fqa" => b_id = 1
            /\ drv = [r \in Relayers |-> [c \in Chains |->
                        IF r # "r1" THEN NoChan
                        ELSE IF c = "A" THEN 1 ELSE b_id]]
  /\ retry = [r \in Relayers |-> RetryInit]
  /\ fin = [r \in Relayers |-> FinInit]
  /\ result = [r \in Relayers |-> NoResult]
  /\ nsend = [r \in Relayers |-> [m \in MsgTypes |-> 0]]
  /\ sentmsg = [r \in Relayers |-> NoMsg]
  /\ retried = [r \in Relayers |-> {}]
  /\ failLeft = 0
  /\ down = "none"
  /\ racing = FALSE
  /\ envLeft = 0
  /\ SupIdle
  /\ ReqIdle
ResumeNext ==
  \/ \E r \in Relayers : do_chan_open_try_and_send(r)
  \/ \E r \in Relayers : query_channel_states_a(r)
  \/ \E r \in Relayers : do_chan_open_finalize(r)
  \/ \E r \in Relayers : expect_channel_states(r)
  \/ \E r \in Relayers : build_chan_open_ack_and_send(r)
  \/ \E r \in Relayers : build_chan_open_confirm_and_send(r)
ResumeSpec == ResumeInit /\ [][ResumeNext]_vars

\* relay_on_object on every object, under both values of packets.filter,
\* for every answer of the allowlist and of the FilterPolicy
FilterInit ==
  /\ HsIdle
  /\ config = <<"A", "B">>
  /\ mode \in {Mode(TRUE, TRUE, TRUE, TRUE, f) : f \in BOOLEAN}
  /\ registry = {}
  /\ workers = NoWorkers
  /\ subscriptions = << >>
  /\ supPc = "new"
  /\ supFailLeft = 0
  /\ supStepsLeft = 0
  /\ last = NoLast
  /\ query = NoQuery
  /\ wire = [block |-> NoWire, metadata |-> NoWire]
  /\ locks = NoLocks
  /\ CallIdle
  /\ filt \in {[NoFilt EXCEPT !.object = o, !.channel_allowed = a,
                              !.outcome = x] :
                 o \in Objects, a \in BOOLEAN, x \in {"Allow", "Deny", "Err"}}
FilterNext == relay_on_object_call
FilterSpec == FilterInit /\ [][FilterNext]_vars

\* The locks alone: the three background tasks, or the inline loop, each
\* running its closure again and again on any batch and any command, under
\* either policy of the RwLock towards readers that arrive while a writer
\* waits
LockInit ==
  /\ HsIdle
  /\ SupIdle
  /\ query = NoQuery
  /\ wire = [block |-> NoWire, metadata |-> NoWire]
  /\ filt = NoFilt
  /\ CallIdle
  /\ locks \in {LocksStart(form, writer_first) :
                  form \in {"tasks", "inline"}, writer_first \in BOOLEAN}
LockNext ==
  \/ \E t \in Tasks : task_run(t)
  \/ \E t \in Tasks : lock_acquire(t)
  \/ \E t \in Tasks : lock_release(t)
LockSpec == LockInit /\ [][LockNext]_vars

\* ---- restore_from_state on every answer of the chains
RestoreInit ==
  /\ HsIdle
  /\ SupIdle
  /\ query = NoQuery
  /\ wire = [block |-> NoWire, metadata |-> NoWire]
  /\ filt = NoFilt
  /\ locks = NoLocks
  /\ stp = NoStep
  /\ rst \in RestoreInputs
RestoreNext == restore_from_state_call
RestoreSpec == RestoreInit /\ [][RestoreNext]_vars

\* ---- step_state and step_event on every pair of states
StepInit ==
  /\ HsIdle
  /\ SupIdle
  /\ query = NoQuery
  /\ wire = [block |-> NoWire, metadata |-> NoWire]
  /\ filt = NoFilt
  /\ locks = NoLocks
  /\ rst = NoRestore
  /\ stp \in StepInputs
StepNext ==
  \/ step_state_call
  \/ step_event_call
StepSpec == StepInit /\ [][StepNext]_vars

\* ================================================================== claims
Done(r) == pc[r] = "done"
Succeeded(r) == Done(r) /\ result[r].kind = "Ok"
OwnEnds(r) ==
  <<IF drv[r]["A"] = NoChan THEN "Uninitialized" ELSE chans["A"][drv[r]["A"]].state,
    IF drv[r]["B"] = NoChan THEN "Uninitialized" ELSE chans["B"][drv[r]["B"]].state>>
LastQueried(r) == <<fin[r].qa, fin[r].qb>>
OpenOpen == <<"Open", "Open">>
\* no RPC failure, no competing actor, no other relayer so far
Undisturbed(r) ==
  /\ down = "none"
  /\ failLeft = MaxFail
  /\ envLeft = MaxEnv
  /\ \A o \in Relayers \ {r} : pc[o] = "idle"
IsPrefix(s, t) == Len(s) <= Len(t) /\ \A i \in 1..Len(s) : s[i] = t[i]
ChainKind(log) == [i \in 1..Len(log) |-> <<log[i].chain, log[i].kind>>]
FourSteps == << <<"A", "OpenInit">>, <<"B", "OpenTry">>,
               <<"A", "OpenAck">>, <<"B", "OpenConfirm">> >>
Count(log, kind) == Cardinality({i \in 1..Len(log) : log[i].kind = kind})

\* C1: whenever handshake() returns success, the pair of states its last query
\* of both ends returned is (Open, Open)
C1_SuccessMeansOpenOpen ==
  \A r \in Relayers : Succeeded(r) => LastQueried(r) = OpenOpen

C3_CleanRunFourSteps ==
  \A r \in Relayers :
    (pre = "none" /\ Undisturbed(r)) =>
      /\ IsPrefix(ChainKind(evlog[r]), FourSteps)
      /\ \A m \in MsgTypes : nsend[r][m] = Count(evlog[r], m)
      /\ \A c \in Chains : nextId[c] <= 2
      /\ Done(r) => /\ result[r].kind = "Ok"
                    /\ ChainKind(evlog[r]) = FourSteps
                    /\ OwnEnds(r) = OpenOpen

C3_Witness ==
  \E r \in Relayers :
    pre = "none" /\ Undisturbed(r) /\ Done(r) /\ ChainKind(evlog[r]) = FourSteps

C6_TransientTryFailureAbsorbed ==
  /\ [](\A r \in Relayers : down = "none" => result[r].kind # "MaxRetry")
  /\ \A r \in Relayers :
       (down = "none" /\ att[r]["try"] >= 2)
         ~> (Succeeded(r) /\ OwnEnds(r) = OpenOpen /\ att[r]["try"] >= 2)

C6_Witness ==
  \E r \in Relayers :
    /\ down = "none"
    /\ "Submit" \in retried[r] /\ att[r]["try"] >= 2
    /\ Succeeded(r) /\ OwnEnds(r) = OpenOpen

ProtocolInvalid ==
  {"MismatchPort", "ChannelAlreadyExist", "MissingChannelOnDestination"}

C8_DelaysWithinCaps ==
  \A r \in Relayers :
    /\ retry[r].delay <= MAX_DELAY
    /\ retry[r].total_delay <= MAX_TOTAL_DELAY
    /\ result[r].total_delay <= MAX_TOTAL_DELAY

C8_Witness ==
  \E r \in Relayers :
    retry[r].total_delay = MAX_TOTAL_DELAY /\ retry[r].tries > 11

RECURSIVE SumSeq(_)
SumSeq(s) == IF s = << >> THEN 0 ELSE Head(s) + SumSeq(Tail(s))

MaxRetryOf(ph) ==
  [kind |-> "MaxRetry", description |-> ph,
   tries |-> Len(retry_strategy_default) + 1,
   total_delay |-> SumSeq(retry_strategy_default), source |-> "Submit"]

C9_NoLaterPhase ==
  \A r \in Relayers :
    /\ \A ph \in Phases : att[r][ph] <= Len(retry_strategy_default) + 1
    /\ down = "A" =>
         /\ att[r]["try"] = 0 /\ att[r]["finalize"] = 0
         /\ nsend[r]["OpenTry"] = 0
         /\ Done(r) => result[r] = MaxRetryOf("init")
    /\ down = "B" =>
         /\ att[r]["finalize"] = 0
         /\ nsend[r]["OpenAck"] = 0 /\ nsend[r]["OpenConfirm"] = 0
         /\ Done(r) => result[r] = MaxRetryOf("try")

\* C9: with a chain whose send_msgs fails on every call, the phase that needs
\* it ends after finitely many attempts in MaxRetry {description, tries,
\* total_delay, source}, handshake() returns that error and no later phase
\* makes an attempt
C9_ExhaustionEndsHandshake ==
  /\ []C9_NoLaterPhase
  /\ \A r \in Relayers : (down # "none" /\ pc[r] # "idle") ~> Done(r)

C9_Witness ==
  \E r \in Relayers :
    down = "A" /\ Done(r) /\ result[r] = MaxRetryOf("init") /\ att[r]["try"] = 0

\* ---------------------------------------------------------------------- C10
\* C10: after any sequence of event batches and commands the worker map holds
\* at most one live worker under every Object key, and a batch whose events
\* are routed to an Object that already had a worker spawns no worker for it.
C10_OneWorkerPerObject ==
  /\ \A o \in Objects : workers[o] <= 1
  /\ last.reused \cap last.spawned = {}

\* a batch was just processed whose events went to an existing worker
C10_Witness ==
  /\ supPc = "running"
  /\ last.chain \in Chains
  /\ \E o \in last.reused : workers[o] = 1 /\ o.src = last.chain

\* ---------------------------------------------------------------------- C11
\* the objects collect_events collected for the batch of the last step
CollectedKeys == {o \in Objects : last.per_object[o] # << >>}

\* C11: every worker created while a batch from chain C is processed is keyed
\* by an Object whose source chain is C, whatever its kind (Client objects
\* from OpenAckChannel and OpenConfirmChannel included).
C11_SpawnedForSourceChain ==
  last.op = "batch" => \A o \in last.spawned : o.src = last.chain

\* a batch with an OpenConfirmChannel event has made the supervisor spawn a
\* Client worker and a Packet worker
C11_Witness ==
  /\ last.op = "batch"
  /\ "OpenConfirmChannel" \in Range(last.events)
  /\ \E o, p \in last.spawned : o.kind = "Client" /\ p.kind = "Packet"

\* ---------------------------------------------------------------------- C12
\* C12: after any sequence of batches and UpdateConfig commands, no worker
\* exists whose source chain is not in config.chains.
C12_NoWorkerForUnconfiguredChain ==
  \A c \in Chains \ Range(config) : workers_for_chain(workers, c) = {}

\* a batch with events for some object arrived on the subscription of a chain
\* that had been removed from the configuration
C12_Witness ==
  /\ last.op = "batch"
  /\ last.chain \notin Range(config)
  /\ CollectedKeys # {}

\* ---------------------------------------------------------------------- C13
\* C13: an UpdateClient event never makes the supervisor create a worker: every
\* object a worker was spawned for while a batch was processed has collected
\* events, and none of them is an UpdateClient event.
C13_UpdateClientSpawnsNothing ==
  last.op = "batch" =>
    \A o \in last.spawned :
       /\ last.per_object[o] # << >>
       /\ "UpdateClient" \notin Range(last.per_object[o])

\* a batch with an UpdateClient event was processed while its Client object
\* had no worker, and there is none after it
C13_Witness ==
  /\ last.op = "batch"
  /\ last.err = "none"
  /\ "UpdateClient" \in Range(last.events)
  /\ mode.clients
  /\ last.chain \in registry
  /\ workers[Object("Client", last.chain)] = 0

\* ---------------------------------------------------------------------- C14
\* C14: after UpdateConfig Remove(C) has been handled for a configured chain C
\* the registry holds no handle for C and no subscription refers to C.
C14_RemoveLeavesNoHandleNoSubscription ==
  (last.op = "cmd" /\ last.kind = "Remove" /\ last.effect = "ConfigChanged")
    => /\ last.id \notin registry
       /\ last.id \notin Range(subscriptions)

\* ---------------------------------------------------------------------- C15
\* C15: whenever the supervisor can receive a batch, every chain with an entry
\* in the subscription set has a live handle in the registry.
C15_SubscribedChainsHaveHandles ==
  supPc = "running" => Range(subscriptions) \subseteq registry

\* ---------------------------------------------------------------------- C16
\* C16 (as stated): for every supervisor state and every chain C, handling
\* Add(C) and then Remove(C) leaves config.chains, the chains of the registry
\* and the objects of the worker map as they were before the Add.
C16_AddThenRemoveRestores ==
  last.undo => Snapshot(config, registry, workers) = last.before

\* C16 (amended): when C was not configured before the Add, handling Add(C)
\* and then Remove(C) leaves config.chains and the objects of the worker map
\* as they were before the Add and the registry without a handle for C and
\* with every handle it held before.
C16_AddThenRemoveOfNewChainRestores ==
  (last.undo /\ last.id \notin Range(last.before.config))
    => /\ config = last.before.config
       /\ LiveObjects(workers) = last.before.objects
       /\ last.id \notin registry
       /\ last.before.registry \subseteq registry

\* Remove(C) has undone an Add(C) that had added C while workers of another
\* chain were running
C16_Witness ==
  /\ last.undo
  /\ last.id \notin Range(last.before.config)
  /\ last.effect = "ConfigChanged"
  /\ last.before.objects # {}

\* ---------------------------------------------------------------------- C17
\* C17: when the rebuild of the subscriptions after a config update returns
\* NoChainsAvailable the supervisor keeps the subscription set it had and keeps
\* running; any other rebuild error ends the loop with that error; and the
\* loop of a running supervisor ends in no other way than by Stop.
C17_NoChainsAvailableKeepsSubscriptions ==
  [][/\ (last'.op = "cmd" /\ last'.rebuild = "NoChainsAvailable")
          => (subscriptions' = subscriptions /\ supPc' = "running")
     /\ (last'.op = "cmd"
          /\ last'.rebuild \notin {"none", "skipped", "NoChainsAvailable"})
          => supPc' = "failed"
     /\ (supPc = "running" /\ supPc' # "running")
          => \/ supPc' = "stopped" /\ last'.op = "stop"
             \/ /\ supPc' = "failed" /\ last'.op = "cmd"
                /\ last'.rebuild \notin {"none", "skipped", "NoChainsAvailable"}
    ]_vars

\* Remove of the last configured chain: the rebuild returned NoChainsAvailable
\* and the supervisor runs on with the subscription it had
C17_Witness ==
  /\ last.op = "cmd"
  /\ last.rebuild = "NoChainsAvailable"
  /\ config = << >>
  /\ subscriptions # << >>
  /\ supPc = "running"

\* ---------------------------------------------------------------------- C18
\* the chains of config.chains for which both get_or_spawn and subscribe
\* succeeded in the init_subscriptions of the last step
SucceededBoth(c) ==
  /\ c \in Range(config)
  /\ c \in registry
  /\ c \notin last.fault.subscribe

\* C18: init_subscriptions returns one subscription for each configured chain
\* where get_or_spawn and subscribe both succeeded, and NoChainsAvailable
\* exactly when there is no such chain; at startup that error makes run()
\* return an error before the loop starts.
C18_NoChainsAvailableIffNoneSucceeded ==
  /\ last.op = "start" =>
       /\ (last.rebuild = "NoChainsAvailable")
            <=> (\A c \in Chains : ~SucceededBoth(c))
       /\ (supPc = "failed") <=> (last.rebuild = "NoChainsAvailable")
       /\ last.rebuild = "none" =>
            subscriptions = SelectSeq(config, SucceededBoth)
  /\ (last.op = "cmd" /\ last.rebuild # "skipped") =>
       /\ (last.rebuild = "NoChainsAvailable")
            <=> (\A c \in Chains : ~SucceededBoth(c))
       /\ last.rebuild = "none" =>
            subscriptions = SelectSeq(config, SucceededBoth)

\* ---------------------------------------------------------------------- C19
\* C19: for a batch from chain A that holds one OpenAckChannel event,
\* collect_events yields an entry with exactly that event for the Client
\* object of A iff clients mode is enabled, for the Packet object of A iff
\* packets mode is enabled, for the Channel object of A iff channels mode is
\* enabled, and no other entry: three entries with all three enabled, and
\* disabling one mode removes exactly its entry.
C19_OpenAckChannelThreeObjects ==
  (last.op = "batch" /\ last.events = <<"OpenAckChannel">>) =>
    /\ CollectedKeys =
         {o \in Objects :
            /\ o.src = last.chain
            /\ \/ o.kind = "Client" /\ mode.clients
               \/ o.kind = "Packet" /\ mode.packets
               \/ o.kind = "Channel" /\ mode.channels}
    /\ \A o \in CollectedKeys : last.per_object[o] = <<"OpenAckChannel">>

\* with clients, packets and channels enabled the OpenAckChannel event of a
\* batch from A was collected for three objects
C19_Witness ==
  /\ last.op = "batch"
  /\ last.events = <<"OpenAckChannel">>
  /\ last.chain = "A"
  /\ mode.clients /\ mode.packets /\ mode.channels
  /\ Cardinality(CollectedKeys) = 3

\* ---------------------------------------------------------------------- C20
\* C20: when a SubscriptionCancelled monitor error arrives for chain A,
\* clear_pending_packets is called on every worker of A and on no other
\* worker, also when one of the calls reports an error; no worker is created
\* or removed and the loop goes on; another monitor error clears, creates and
\* removes nothing.
C20_CancelledClearsEveryWorker ==
  /\ (last.op = "batch" /\ last.err = "SubscriptionCancelled") =>
       /\ last.cleared = workers_for_chain(workers, last.chain)
       /\ last.spawned = {} /\ last.removed = {}
       /\ supPc = "running"
  /\ (last.op = "batch" /\ last.err = "Other") =>
       /\ last.cleared = {}
       /\ last.spawned = {} /\ last.removed = {}
       /\ supPc = "running"

\* the send_events calls of the last batch that went to the worker of o
EventCalls(o) ==
  {j \in 1..Len(last.sends) :
     last.sends[j].what = "events" /\ last.sends[j].to = o}
\* the worker map before the last batch: a batch only spawns workers
WorkersBefore ==
  [o \in Objects |-> IF o \in last.spawned THEN 0 ELSE workers[o]]
\* the events of the last batch that are classified to o, in batch order
ClassifiedTo(o) ==
  SelectSeq(last.events,
            LAMBDA e : collect_events(mode, WorkersBefore, last.chain,
                                      <<e>>).per_object[o] # << >>)

\* C21: in a batch that contains a NewBlock event, every send_events call is
\* preceded by the send_new_block call, at the batch height, to every worker
\* registered for the source chain.
C21_NewBlockBeforeEvents ==
  (last.op = "batch" /\ "NewBlock" \in Range(last.events)) =>
    \A j \in 1..Len(last.sends) :
      last.sends[j].what = "events" =>
        \A w \in last.notify :
          \E i \in 1..(j - 1) :
            last.sends[i] =
              [to |-> w, what |-> "new_block", events |-> <<"NewBlock">>,
               height |-> last.height, chain_id |-> last.chain]

\* a batch with a NewBlock and a channel event was handled while workers of
\* the source chain were running: they were notified, then the events went
\* out
C21_Witness ==
  /\ last.op = "batch"
  /\ "NewBlock" \in Range(last.events)
  /\ Cardinality(last.notify) >= 2
  /\ \E j \in 1..Len(last.sends) : last.sends[j].what = "events"

\* C22: what is sent to the worker of an Object is the subsequence of the
\* batch's events classified to that Object, in batch order, in one
\* send_events call that carries the batch height and chain id; when the
\* batch is handled to its end and nothing is filtered, every Object with
\* such events gets that call.
C22_EventsInBatchOrder ==
  (last.op = "batch" /\ last.err = "none") =>
    \A o \in Objects :
      /\ Cardinality(EventCalls(o)) <= 1
      /\ \A j \in EventCalls(o) :
           /\ last.sends[j].events = ClassifiedTo(o)
           /\ last.sends[j].height = last.height
           /\ last.sends[j].chain_id = last.chain
      /\ (last.ok /\ ~mode.filter /\ ClassifiedTo(o) # << >>)
           => EventCalls(o) # {}

\* a batch of two packet events was handled: both went to the packet worker
\* in one call
C22_Witness ==
  /\ last.op = "batch"
  /\ last.events = <<"SendPacket", "WriteAcknowledgement">>
  /\ \E j \in EventCalls(Object("Packet", last.chain)) :
       /\ Len(last.sends[j].events) = 2
       /\ last.sends[j].height = 3

\* C23: once a Stop command has been taken, its acknowledgement has been
\* sent, no batch and no command is handled after it, and no worker is left
\* running.
C23_StopEndsSupervisor ==
  supPc \in {"stopped", "cmd_ended"} =>
    /\ last.op = "stop"
    /\ last.acked
    /\ LiveObjects(workers) = {}

\* the number a decimal string stands for
RECURSIVE FromDecimal(_)
FromDecimal(s) ==
  IF s = << >> THEN 0
  ELSE 10 * FromDecimal(SubSeq(s, 1, Len(s) - 1)) + s[Len(s)]
\* what the claim says goes onto the wire
WireHeight ==
  IF query.tag = "Latest" THEN 0 ELSE query.revision_height

\* C24: both conversions of a HeightQuery succeed and yield 0 for Latest
\* and h.revision_height for Specific(h), whatever h is.
C24_MarshalsAsRevisionHeight ==
  /\ wire.block.done =>
       wire.block.ok /\ wire.block.height = WireHeight
  /\ wire.metadata.done =>
       wire.metadata.ok /\ FromDecimal(wire.metadata.value) = WireHeight

\* C24, amended: the metadata value is always the decimal string of 0 for
\* Latest and of h.revision_height for Specific(h); the block height is
\* that number when it fits an i64, and the conversion fails with
\* InvalidHeight when it does not.
C24_MarshalsWhatFitsI64 ==
  /\ wire.block.done =>
       IF WireHeight <= I64_MAX
       THEN wire.block.ok /\ wire.block.height = WireHeight
       ELSE ~wire.block.ok /\ wire.block.err = "InvalidHeight"
  /\ wire.metadata.done =>
       /\ wire.metadata.ok
       /\ wire.metadata.value = to_string(WireHeight)
       /\ FromDecimal(wire.metadata.value) = WireHeight

\* Specific(h) with a height of two digits in a later revision went through
\* both conversions
C24_Witness ==
  /\ query.tag = "Specific"
  /\ query.revision_number = 1
  /\ query.revision_height = 17
  /\ wire.block.done /\ wire.block.height = 17
  /\ wire.metadata.done /\ wire.metadata.value = <<1, 7>>

\* ---- do_chan_open_finalize, message by message
\* the step of r handed a message to send_msgs
Submits(r) == nsend'[r] # nsend[r]
SentKind(r) == <<sentmsg'[r].type, sentmsg'[r].dst>>
\* the step of r ended an attempt with an error: the wrapper either starts
\* the next attempt or gives up with MaxRetry
Fails(r) ==
  \/ retry'[r].tries = retry[r].tries + 1
  \/ pc[r] # "done" /\ pc'[r] = "done" /\ result'[r].kind = "MaxRetry"
FailKind(r) ==
  IF pc'[r] = "done" THEN result'[r].source ELSE retry'[r].err
TryOpenInit == <<"TryOpen", "Init">>
\* the submissions the table of the finalization gives for a queried pair
Submissions(pair) ==
  CASE pair \in {<<"Init", "TryOpen">>, <<"TryOpen", "TryOpen">>} ->
         << <<"OpenAck", "A">>, <<"OpenConfirm", "B">> >>
    [] pair = <<"Open", "TryOpen">> -> << <<"OpenConfirm", "B">> >>
    [] pair = <<"TryOpen", "Open">> -> << <<"OpenConfirm", "A">> >>
    [] OTHER -> << >>

C26_AckGoesToTheInitEnd ==
  [][\A r \in Relayers :
       fin[r].first = TryOpenInit =>
         /\ (pc[r] = "ack" /\ Submits(r)) =>
              SentKind(r) = <<"OpenAck", "B">>
         /\ (pc[r] = "confirm" /\ Submits(r)) =>
              /\ LastQueried(r) = <<"TryOpen", "Open">>
              /\ SentKind(r) = <<"OpenConfirm", "A">>
  ]_vars

\* the pair do_chan_open_finalize expects after the sent-th submission of an
\* attempt that first queried the pair first
ExpectedAfter(first, sent) ==
  IF sent = 1 /\ first \in {<<"Init", "TryOpen">>, <<"TryOpen", "TryOpen">>}
  THEN <<"Open", "TryOpen">>
  ELSE IF sent = 1 /\ first = TryOpenInit THEN <<"TryOpen", "Open">>
  ELSE OpenOpen
\* the pair a re-query of r is about to complete: A's state as just queried,
\* B's state as the chain holds it
Requeried(r) == <<fin[r].qa, chans["B"][drv[r]["B"]].state>>

\* C27: after every Ack or Confirm the chain accepted, the attempt queries
\* both ends again before anything else; a re-queried pair that differs from
\* the expected progression ends the attempt with
\* PartialOpenHandshake(expected_a, expected_b) and without a submission,
\* the wrapper starts the next attempt at a fresh query (or gives up with
\* MaxRetry carrying that error once its delays are used up), and a Confirm
\* follows an Ack only on a re-queried pair equal to the expected one.
C27_RequeryAfterEverySubmission ==
  [][\A r \in Relayers :
       /\ (pc[r] \in {"ack", "confirm"} /\ fin'[r].sent = fin[r].sent + 1) =>
            pc'[r] = IF pc[r] = "ack" THEN "x1a" ELSE "x2a"
       /\ (pc[r] \in {"x1a", "x2a"} /\ pc'[r] # pc[r]) =>
            \/ pc'[r] = (IF pc[r] = "x1a" THEN "x1b" ELSE "x2b")
                 /\ fin'[r].qa = chans["A"][drv[r]["A"]].state
            \/ Fails(r)
       /\ (pc[r] \in {"x1b", "x2b"} /\ pc'[r] # pc[r]) =>
            IF Requeried(r) = ExpectedAfter(fin[r].first, fin[r].sent)
            THEN /\ ~Fails(r)
                 /\ pc'[r] = (IF pc[r] = "x1b" THEN "confirm" ELSE "done")
            ELSE /\ Fails(r)
                 /\ FailKind(r) = partial_open_handshake(
                        ExpectedAfter(fin[r].first, fin[r].sent)[1],
                        ExpectedAfter(fin[r].first, fin[r].sent)[2])
                 /\ ~Submits(r)
                 /\ \/ pc'[r] = "fqa" /\ fin'[r] = FinInit
                    \/ pc'[r] = "done" /\ retry[r].idx = Len(retry_strategy_default)
       /\ (pc'[r] = "confirm" /\ pc[r] # "confirm") =>
            \/ pc[r] = "fqb"
            \/ pc[r] = "x1b" /\ fin[r].sent = 1
                 /\ Requeried(r) = ExpectedAfter(fin[r].first, 1)
  ]_vars

\* an Ack went to A, another relayer's Confirm opened B before the re-query,
\* and the attempt ended with PartialOpenHandshake(Open, TryOpen) before any
\* Confirm of this relayer; the next attempt stands at its fresh query
C27_Witness ==
  /\ pc["r1"] = "fqa"
  /\ retry["r1"].err = "PartialOpenHandshake(Open, TryOpen)"
  /\ nsend["r1"]["OpenAck"] = 1
  /\ nsend["r1"]["OpenConfirm"] = 0
  /\ fin["r1"] = FinInit
  /\ OwnEnds("r1") = OpenOpen

\* ---- validated_expected_channel
\* what the claim says the validation returns for the end the destination
\* holds under the driver's id
Validated(r, dst, msg_type) ==
  LET existing == chans[dst][drv[r][dst]]
      highest == IF msg_type = "CloseConfirm" THEN "Open" ELSE "TryOpen"
  IN IF existing.state = "Uninitialized" THEN "MissingChannelOnDestination"
     ELSE IF /\ StateNum(existing.state) <= StateNum(highest)
             /\ existing.hop = ConnOf(dst)
             /\ \/ existing.cpChan = NoChan
                \/ /\ existing.cpPort = PortOf(Other(dst))
                   /\ existing.cpChan = drv[r][Other(dst)]
     THEN "Ok" ELSE "ChannelAlreadyExist"
ProofMsgTypes == {"OpenAck", "OpenConfirm", "CloseConfirm"}

\* C28: for a driver that holds an id for the destination,
\* validated_expected_channel fails with MissingChannelOnDestination on an
\* Uninitialized end, succeeds exactly when the state number is at most the
\* expected one (TryOpen for Ack and Confirm, Open for CloseConfirm), the
\* hops are equal and the counterparty channel id is unset or port and
\* channel id both equal the expected ones, and fails with
\* ChannelAlreadyExist otherwise; an Ack or Confirm step whose validation
\* fails returns that error and submits nothing, and one whose validation
\* succeeds submits its message.
C28_ValidatedExpectedChannel ==
  /\ [](\A r \in Relayers, dst \in Chains, msg_type \in ProofMsgTypes :
          drv[r][dst] # NoChan =>
            validated_expected_channel(r, dst, msg_type)
              = Validated(r, dst, msg_type))
  /\ [][\A r \in Relayers :
          (pc[r] \in {"ack", "confirm"} /\ pc'[r] # pc[r]) =>
            LET dst == IF pc[r] = "ack" THEN fin[r].plan.ackTo
                       ELSE fin[r].plan.confTo
                msg_type == IF pc[r] = "ack" THEN "OpenAck" ELSE "OpenConfirm"
            IN IF Validated(r, dst, msg_type) = "Ok"
               THEN Submits(r) /\ sentmsg'[r].dst = dst
               ELSE /\ Fails(r)
                    /\ FailKind(r) = Validated(r, dst, msg_type)
                    /\ ~Submits(r)
                    /\ chans' = chans
     ]_vars

\* the Ack of the first attempt was refused by the validation because the
\* end on A names another port for the same channel id; nothing was
\* submitted
C28_Witness ==
  /\ retry["r1"].err = "ChannelAlreadyExist"
  /\ retry["r1"].tries = 2
  /\ chans["A"][1].state = "TryOpen"
  /\ chans["A"][1].cpChan = drv["r1"]["B"]
  /\ chans["A"][1].cpPort = "portX"
  /\ chans["A"][1].hop = ConnOf("A")
  /\ chans["B"][1].state = "TryOpen"
  /\ nsend["r1"]["OpenAck"] = 0

\* C29: an OpenTry step of a driver that holds A's channel id fails with
\* MismatchPort, submitting nothing, when the counterparty port of A's end
\* is not the driver's B port; otherwise the MsgChannelOpenTry it submits
\* to B carries as previous channel id the counterparty channel id of A's
\* end when that is set, else the driver's B channel id when that is set,
\* else none.
C29_PreviousChannelId ==
  [][\A r \in Relayers :
       (pc[r] = "try" /\ drv[r]["A"] # NoChan
          /\ (pc'[r] # pc[r] \/ Fails(r))) =>
         LET a_end == chans["A"][drv[r]["A"]]
         IN IF a_end.cpPort # PortOf("B")
            THEN /\ Fails(r)
                 /\ FailKind(r) = "MismatchPort"
                 /\ ~Submits(r)
                 /\ chans' = chans
            ELSE /\ Submits(r)
                 /\ SentKind(r) = <<"OpenTry", "B">>
                 /\ sentmsg'[r].previous_channel_id =
                      IF a_end.cpChan # NoChan THEN a_end.cpChan
                      ELSE IF drv[r]["B"] # NoChan THEN drv[r]["B"]
                      ELSE NoChan
  ]_vars

\* crash recovery: A's end names no counterparty channel, the driver still
\* holds the id of B's Init end, and its OpenTry named that end as the
\* previous channel and turned it into the TryOpen end
C29_Witness ==
  /\ sentmsg["r1"].type = "OpenTry"
  /\ sentmsg["r1"].previous_channel_id = 1
  /\ chans["A"][1].cpChan = NoChan
  /\ chans["B"][1].state = "TryOpen"
  /\ nextId["B"] = 2
  /\ nsend["r1"]["OpenTry"] = 1
  /\ drv["r1"]["B"] = 1

\* C30: a handshake submission (Init, Try, Ack or Confirm) that reached the
\* chain and that the chain answered with a ChainError fails with
\* TxResponse, and the channel ids the driver holds stay as they were.
C30_ChainErrorIsTxResponse ==
  [][\A r \in Relayers :
       (Submits(r) /\ Fails(r) /\ FailKind(r) # "Submit") =>
         /\ FailKind(r) = "TxResponse"
         /\ drv'[r] = drv[r]
  ]_vars

\* ---- UpdateConfig, command by command
\* the step handled the command UpdateConfig kind(id)
Handles(kind, id) ==
  /\ supStepsLeft' < supStepsLeft
  /\ last'.op = "cmd"
  /\ last'.kind = kind
  /\ last'.id = id
\* the step changed nothing of what the supervisor holds
NothingChanged ==
  /\ config' = config
  /\ registry' = registry
  /\ workers' = workers
  /\ subscriptions' = subscriptions

\* C31: Add(id) of a configured chain changes nothing and has effect
\* Nothing; when registry.spawn fails the append is undone, so config,
\* registry and workers are what they were, the effect is Nothing and the
\* subscriptions are not rebuilt; otherwise the effect is ConfigChanged,
\* the chain is appended to config, has a handle, every worker there was is
\* still there and every new worker is one of the new chain.
C31_AddRollsBackOnSpawnFailure ==
  [][\A id \in Chains :
       Handles("Add", id) =>
         IF id \in Range(config) \/ last'.fault.spawn
         THEN /\ NothingChanged
              /\ last'.effect = "Nothing"
              /\ last'.rebuild = "skipped"
         ELSE /\ last'.effect = "ConfigChanged"
              /\ config' = Append(config, id)
              /\ id \in registry'
              /\ registry \subseteq registry'
              /\ Removed(workers, workers') = {}
              /\ \A o \in Spawned(workers, workers') : o.src = id
              /\ last'.rebuild # "skipped"
  ]_vars

\* Add(B) with config = [A] failed at registry.spawn: B is not configured,
\* has no handle and no worker, and the subscriptions were not rebuilt
C31_Witness ==
  /\ last.op = "cmd"
  /\ last.kind = "Add"
  /\ last.id = "B"
  /\ last.fault.spawn
  /\ last.effect = "Nothing"
  /\ config = <<"A">>
  /\ "B" \notin registry
  /\ last.rebuild = "skipped"

\* what the supervisor holds, as the commands take it
Held == [config |-> config, workers |-> workers, registry |-> registry,
         effect |-> "Nothing"]

C33_UpdateIsRemoveThenAdd ==
  [][\A id \in Chains :
       Handles("Update", id) =>
         LET present == id \in Range(config)
             spawned == ~last'.fault.spawn
             without == SelectSeq(config, LAMBDA c : c # id)
         IN /\ last'.effect = "ConfigChanged" <=> (present \/ spawned)
            /\ (~present /\ ~spawned) => NothingChanged
            /\ spawned =>
                 /\ config' = Append(without, id)
                 /\ id \in registry'
                 /\ \A o \in Spawned(workers, workers') : o.src = id
            /\ (present /\ ~spawned) =>
                 /\ config' = without
                 /\ id \notin registry'
                 /\ workers_for_chain(workers', id) = {}
            /\ \A o \in Removed(workers, workers') : o.src = id /\ present
            /\ registry \ {id} \subseteq registry'
  ]_vars

\* Update(A) of the configured chain A, which had workers, failed at
\* registry.spawn: A is neither configured nor in the registry, its workers
\* are shut down, and the effect is still ConfigChanged
C33_Witness ==
  /\ last.op = "cmd"
  /\ last.kind = "Update"
  /\ last.id = "A"
  /\ last.fault.spawn
  /\ last.effect = "ConfigChanged"
  /\ \E o \in last.removed : o.src = "A"
  /\ "A" \notin Range(config)
  /\ "A" \notin registry
  /\ workers_for_chain(workers, "A") = {}

\* C34: relay_on_object with packets.filter off returns true for every
\* object and consults neither the allowlist nor the FilterPolicy; with it
\* on, a Packet object the allowlist does not admit gets false without a
\* call of a control_*_object entrypoint; in every other case the
\* entrypoint of the object's kind is called and the result is true
\* exactly when it answers Allow, an error counting as Deny.
C34_AllowlistBeforeClientFilter ==
  filt.called =>
    IF ~mode.filter
    THEN filt.relay /\ ~filt.allowlist /\ filt.control = "none"
    ELSE IF filt.object.kind = "Packet" /\ ~filt.channel_allowed
    THEN ~filt.relay /\ filt.control = "none"
    ELSE /\ filt.control = control_object(filt.object)
         /\ filt.relay <=> filt.outcome = "Allow"

\* a Packet object that the allowlist does not admit, though the
\* FilterPolicy would have allowed it, was refused without a call of
\* control_packet_object
C34_Witness ==
  /\ filt.called
  /\ mode.filter
  /\ filt.object.kind = "Packet"
  /\ ~filt.channel_allowed
  /\ filt.outcome = "Allow"
  /\ ~filt.relay
  /\ filt.control = "none"

\* ---- the locks
WriteHeld(t) == {l \in LockNames : locks.held[l].w = t}
ReadHeld(t) == {l \in LockNames : t \in locks.held[l].r}
AllWriteHeld == {l \in LockNames : locks.held[l].w # "none"}
\* the sets of the first k locks of a sequence
Prefixes(order) == {{order[i] : i \in 1..k} : k \in 0..Len(order)}

\* C35: at every point of the supervisor's execution, in the inline loop and
\* in the background tasks, at most one write lock among config, registry,
\* worker map, filter and subscriptions is held.
C35_OneWriteLockAtATime ==
  Cardinality(AllWriteHeld) <= 1

\* C35, amended: a task takes its write guards in the argument list of one
\* call, in a fixed order, and drops them together: the inline loop holds
\* registry alone or config with registry; the batch task holds registry,
\* then filter, then workers, under read guards on subscriptions and
\* config; the command task holds config, then registry, then workers,
\* then filter, or registry under a read guard on config, or subscriptions
\* alone with no other guard; the REST task holds no write guard.
C35_WriteLocksPerCall ==
  /\ WriteHeld("rest") = {}
  /\ WriteHeld("loop") \in {{}, {"registry"}, {"config", "registry"},
                            {"config"}}
  /\ WriteHeld("loop") = {"registry"} => ReadHeld("loop") = {"config"}
  /\ WriteHeld("batch") \in Prefixes(<<"registry", "filter", "workers">>)
  /\ WriteHeld("batch") # {} => ReadHeld("batch") = {"subscriptions", "config"}
  /\ WriteHeld("cmd") \in
       Prefixes(<<"config", "registry", "workers", "filter">>)
       \cup {{"registry"}, {"subscriptions"}}
  /\ WriteHeld("cmd") = {"registry"} => ReadHeld("cmd") = {"config"}
  /\ WriteHeld("cmd") = {"subscriptions"} => ReadHeld("cmd") = {}
  /\ Cardinality(AllWriteHeld) <= 4

\* the command task inside update_config: it holds the four write guards
\* while the batch task, holding its read guard on subscriptions, waits for
\* config
C35_Witness ==
  /\ locks.form = "tasks"
  /\ WriteHeld("cmd") = {"config", "registry", "workers", "filter"}
  /\ ReadHeld("batch") = {"subscriptions"}
  /\ "cmd" \in Blockers("batch")

\* ---- deadlock
\* every task of S waits for a guard that another task of S keeps it from
WaitCycle(S) ==
  /\ S # {}
  /\ \A t \in S : Blockers(t) \cap S # {}

\* C38: in the background-task form no set of tasks is ever such that each
\* of them waits for a lock held (or, where writers go first, awaited) by
\* another task of the set: the batch task takes filter before workers and
\* the command task workers before filter, but both only while they hold a
\* guard on config, one of them the write guard.
C38_NoLockDeadlock ==
  /\ \A S \in SUBSET Tasks : ~WaitCycle(S)
  /\ \A t \in {"batch", "cmd"} :
       WriteHeld(t) \cap {"filter", "workers"} # {} =>
         "config" \in WriteHeld(t) \cup ReadHeld(t)
  /\ ~("config" \in WriteHeld("cmd") /\ "config" \in ReadHeld("batch"))

\* the command task holds workers and asks for filter next, while the batch
\* task, which would take filter first, waits at config
C38_Witness ==
  /\ locks.form = "tasks"
  /\ WriteHeld("cmd") = {"config", "registry", "workers"}
  /\ locks.todo["cmd"][1].lock = "filter"
  /\ locks.todo["batch"] # << >>
  /\ locks.todo["batch"][1].lock = "config"
  /\ Blockers("batch") = {"cmd"}
  /\ Blockers("cmd") = {}
\* ---- process_batch
\* the objects send_events was called for with success
Delivered == {last.sends[i].to : i \in {j \in 1..Len(last.sends) : last.sends[j].what = "events"}}
\* the i-th object of the iteration passed relay_on_object
Relayed(i) == relay_on_object(mode, last.order[i], last.order[i] \notin last.denied)
\* the loop over per_object failed at its k-th object: the first object
\* that passed the filter and has no events delivered
FailedAt(k) ==
  /\ Relayed(k)
  /\ last.order[k] \notin Delivered
  /\ \A i \in 1..(k - 1) : Relayed(i) => last.order[i] \in Delivered
NewBlockSent(w) ==
  \E j \in 1..Len(last.sends) :
    last.sends[j] = [to |-> w, what |-> "new_block", events |-> <<"NewBlock">>, height |-> last.height, chain_id |-> last.chain]

\* C40: process_batch stops at the first failure.  When send_new_block
\* fails no object receives events and no worker is spawned; when a chain
\* handle cannot be had or send_events fails for an object, that object and
\* every later object of the batch receive nothing and no later object has
\* a worker spawned, while the NewBlock notifications and the events of the
\* earlier objects stay delivered; no worker is removed, and handle_batch
\* only logs the error: the loop, or the batch task, is still running.
C40_ProcessBatchStopsAtFirstFailure ==
  (last.op = "batch" /\ last.err = "none" /\ ~last.ok) =>
    /\ last.removed = {}
    /\ supPc \in {"running", "tasks", "cmd_ended"}
    /\ last.failed.what = "new_block" =>
         /\ Delivered = {}
         /\ last.spawned = {}
    /\ last.failed.what # "new_block" =>
         \E k \in 1..Len(last.order) :
           /\ FailedAt(k)
           /\ \A i \in k..Len(last.order) : last.order[i] \notin Delivered
           /\ \A i \in (k + 1)..Len(last.order) :
                last.order[i] \notin last.spawned
           /\ "NewBlock" \in Range(last.events) =>
                \A w \in last.notify : NewBlockSent(w)

\* send_events failed for the second object of a batch: the first object
\* has its events, the second has a worker and no events
C40_Witness ==
  /\ last.op = "batch"
  /\ ~last.ok
  /\ last.failed = [at |-> 2, what |-> "send"]
  /\ Len(last.order) >= 2
  /\ FailedAt(2)
  /\ last.order[1] \in Delivered
  /\ last.order[2] \in last.spawned
\* ---- the two forms of the supervisor
\* what run_step and run_without_health_check do on Stop, from a state of
\* the task form: the acknowledgement, the end of the loop, workers.shutdown
InlineStop ==
  /\ supStepsLeft > 0
  /\ supStepsLeft' = supStepsLeft - 1
  /\ supPc' = "cmd_ended"
  /\ workers' = WorkerMap_shutdown(workers)
  /\ last' = [NoLast EXCEPT !.op = "stop", !.acked = TRUE]
  /\ UNCHANGED <<config, mode, registry, subscriptions, supFailLeft, hsVars>>
\* the step run_step takes on a batch or a command
InlineStep ==
  \/ recv_and_handle_batch
  \/ cmd_UpdateConfig("cmd_ended")
  \/ cmd_DumpState
  \/ InlineStop

\* C36: the background tasks and the inline loop execute the same logic:
\* once started, every step of the task form on a batch or a command is
\* the step run_step takes on it, with the same config, registry, workers,
\* subscriptions and messages to workers after it, and the tasks take a
\* step only where the loop is still running.
C36_TaskFormIsInlineLoop ==
  [][supPc # "new" => (supPc = "tasks" /\ InlineStep)]_vars
\* ---- restore_from_state
\* the channels of B's connection whose counterparty channel id is the
\* source channel id, by position
Matches == {i \in 1..Len(rst.b_channels) : rst.b_channels[i].remote = rst.src_channel_id}
RestoreLooksUp == rst.a_state = "Init" /\ rst.a_remote = NoChan

\* C37: restore_from_state queries the channels of B's connection only
\* when A's end is Init and names no counterparty channel id; it then takes
\* as B's channel id that of the first returned channel whose counterparty
\* channel id is the source channel id, whatever comes after it, and None
\* when there is none; otherwise B's channel id is the one A's end names.
\* The state it returns is the state of A's end.
C37_RestoreAdoptsFirstMatch ==
  rst.done =>
    /\ rst.scanned => RestoreLooksUp
    /\ rst.ok =>
         /\ rst.state = rst.a_state
         /\ rst.scanned <=> RestoreLooksUp
         /\ ~RestoreLooksUp => rst.b_channel_id = rst.a_remote
         /\ RestoreLooksUp /\ Matches = {} => rst.b_channel_id = NoChan
         /\ RestoreLooksUp /\ Matches # {} =>
              \E i \in Matches :
                /\ \A j \in Matches : i <= j
                /\ rst.b_channel_id = rst.b_channels[i].channel_id

\* A's end is Init with no counterparty id and both channels of B's
\* connection name the source channel: the first was adopted
C37_Witness ==
  /\ rst.done
  /\ rst.ok
  /\ RestoreLooksUp
  /\ Matches = {1, 2}
  /\ rst.b_channel_id = rst.b_channels[1].channel_id
  /\ rst.b_channel_id # rst.b_channels[2].channel_id
  /\ rst.state = "Init"

\* ---- handshake_step
\* the message the table of the claim has for a pair of states
StepTable(state, c) ==
  CASE <<state, c>> \in {<<"Init", "Uninitialized">>, <<"Init", "Init">>} -> "OpenTry"
    [] <<state, c>> \in {<<"TryOpen", "Init">>, <<"TryOpen", "TryOpen">>} -> "OpenAck"
    [] <<state, c>> = <<"Open", "TryOpen">> -> "OpenConfirm"
    [] OTHER -> "none"
EventTable(event) ==
  CASE event = "OpenInitChannel" -> "Init"
    [] event = "OpenTryChannel" -> "TryOpen"
    [] event = "OpenAckChannel" -> "Open"
    [] event = "OpenConfirmChannel" -> "Open"
    [] OTHER -> "Uninitialized"

\* C39: a step submits at most one handshake message, to the destination
\* chain only, and the message is the one of the table for (state,
\* counterparty state): OpenTry for (Init, Uninitialized) and (Init, Init),
\* OpenAck for (TryOpen, Init) and (TryOpen, TryOpen), OpenConfirm for
\* (Open, TryOpen), none and an empty event list for every other pair.
\* step_event takes OpenInit for Init, OpenTry for TryOpen, OpenAck and
\* OpenConfirm for Open and any other event for Uninitialized, and every
\* error of the step comes back as Retry with the index given.
C39_HandshakeStepByTable ==
  stp.done =>
    /\ Len(stp.msgs) <= 1
    /\ \A i \in 1..Len(stp.msgs) :
         /\ stp.msgs[i].dst = Other(stp.src)
         /\ stp.msgs[i].type = StepTable(stp.state, stp.counterparty)
    /\ stp.by = "event" => stp.state = EventTable(stp.event)
    /\ StepTable(stp.state, stp.counterparty) = "none" =>
         /\ stp.msgs = << >>
         /\ stp.events = << >>
         /\ stp.fault # "counterparty_state" => stp.result = "Ok"
    /\ stp.fault = "none" =>
         /\ stp.result = "Ok"
         /\ StepTable(stp.state, stp.counterparty) # "none" =>
              /\ Len(stp.msgs) = 1
              /\ stp.events = <<StepTable(stp.state, stp.counterparty)>>
    /\ stp.result \in {"Ok", "Retry"}
    /\ stp.result = "Retry" =>
         /\ stp.retry_index = stp.index
         /\ stp.fault # "none"
         /\ stp.events = << >>
    /\ (/\ stp.fault # "none"
        /\ (stp.fault = "counterparty_state"
              \/ StepTable(stp.state, stp.counterparty) # "none"))
         => stp.result = "Retry"

\* step_event on an OpenAckChannel event with the counterparty in TryOpen:
\* the state is Open and one OpenConfirm went to the destination chain
C39_Witness ==
  /\ stp.done
  /\ stp.by = "event"
  /\ stp.event = "OpenAckChannel"
  /\ stp.counterparty = "TryOpen"
  /\ stp.result = "Ok"
  /\ Len(stp.msgs) = 1
  /\ stp.msgs[1] = [type |-> "OpenConfirm", dst |-> Other(stp.src)]
====
